---- MODULE Spec2Model ----
(***************************************************************************)
(* Notice hub: notification planning (services/scheduling.ts), due-schedule *)
(* dispatch (services/dispatch.ts) and notice ingestion                     *)
(* (services/ingest.ts) over the relational tables of the migrations.      *)
(*                                                                         *)
(* Time is counted in whole minutes.  A nullable column holds <<>> for     *)
(* NULL and <<v>> for the value v.  Every SQL statement is one atomic      *)
(* step; a handler made of several awaited statements is a sequence of     *)
(* steps of one process, so that other handlers interleave between them.   *)
(***************************************************************************)
EXTENDS Integers, Sequences, FiniteSets, Bags, TLC

\* ------------------------------------------------------------------ bounds
MaxScheduleId == 3
MaxNow == 11
MaxDeliveries == 3
MaxLimit == 2
MaxSeqScheduleId == 10
MaxIngestRuns == 2
MaxFeedLen == 2
MaxFailIndex == 1

\* ------------------------------------------------------- program constants
\* scheduling.ts:200  "now - 5 * 60 * 1000", in minutes
GraceMinutes == 5
\* scheduling.ts:245  INTERVAL '1 day', in minutes
DayMinutes == 1440

NULL == <<>>
Some(v) == <<v>>
IsNull(o) == o = <<>>
Val(o) == o[1]

Min(a, b) == IF a <= b THEN a ELSE b

\* --------------------------------------- services/ingest.ts, the parser
\* A text is a sequence of tokens: words, white space, separators and
\* date-times.  The tokens the notices of the model are made of:
Whitespace == {" ", "\n"}
Separators == {"~", "-"}
DateTokens == {"2026/01/01 09:10", "2026/01/01 09:14", "2026/13/01 09:10"}
TimeTokens == {"09:14"}
\* "#pickup" stands for the Hangul spelling of pickup, a keyword of
\* detectEventType with no character in [a-z0-9].

\* The minute of the local time line a date-time token names, counted from
\* 2026/01/01 00:00; month 13 names none (new Date(...) is invalid).
LocalMinutes(token) ==
    CASE token = "2026/01/01 09:10" -> Some(550)
      [] token = "2026/01/01 09:14" -> Some(554)
      [] token = "09:14" -> Some(554)
      [] OTHER -> NULL

\* String.prototype.toLowerCase on a token.
LowerCase(token) ==
    CASE token = "Pickup" -> "pickup"
      [] token = "PICKUP" -> "pickup"
      [] token = "MAINTENANCE" -> "maintenance"
      [] token = "UPDATE" -> "update"
      [] token = "EVENT" -> "event"
      [] token = "CAMPAIGN" -> "campaign"
      [] OTHER -> token

\* The number of characters of a token.
CharLen(token) ==
    CASE token \in DateTokens -> 16
      [] token \in TimeTokens -> 5
      [] token \in {"maintenance"} -> 11
      [] token \in {"campaign"} -> 8
      [] token \in {"pickup", "Pickup", "notice", "update"} -> 6
      [] token \in {"..."} -> 3
      [] token \in {"#pickup"} -> 2
      [] OTHER -> 1

RECURSIVE TextLen(_)
TextLen(text) == IF text = <<>> THEN 0 ELSE CharLen(Head(text)) + TextLen(Tail(text))

\* sha256 is taken to be free of collisions: a digest stands for its input.
sha256(input) == <<"sha256", input>>

\* replace(/\s+/g, " ")
RECURSIVE CollapseWhitespace(_, _)
CollapseWhitespace(text, by) ==
    IF text = <<>> THEN <<>>
    ELSE LET rest == CollapseWhitespace(Tail(text), by)
         IN IF Head(text) \in Whitespace
            THEN IF rest # <<>> /\ Head(rest) = by THEN rest ELSE <<by>> \o rest
            ELSE <<Head(text)>> \o rest

RECURSIVE TrimStart(_)
TrimStart(text) ==
    IF text # <<>> /\ Head(text) \in Whitespace THEN TrimStart(Tail(text)) ELSE text

RECURSIVE TrimEnd(_)
TrimEnd(text) ==
    IF text # <<>> /\ text[Len(text)] \in Whitespace
    THEN TrimEnd(SubSeq(text, 1, Len(text) - 1)) ELSE text

\* String.prototype.trim
Trim(text) == TrimEnd(TrimStart(text))

normalizeText(input) == Trim(CollapseWhitespace(input, " "))

\* The longest prefix of whole tokens within `count` characters (slice(0, count)
\* cuts inside a token; the notices of the model stay below the cut).
RECURSIVE SliceChars(_, _)
SliceChars(text, count) ==
    IF text = <<>> \/ CharLen(Head(text)) > count THEN <<>>
    ELSE <<Head(text)>> \o SliceChars(Tail(text), count - CharLen(Head(text)))

summarize(input, maxLength) ==
    LET normalized == normalizeText(input)
    IN IF TextLen(normalized) <= maxLength THEN normalized
       ELSE SliceChars(normalized, maxLength - 1) \o <<"...">>

\* What replace(/[^a-z0-9\s-]/g, "") leaves of a lower-case token.
SlugChars(token) ==
    CASE token = "2026/01/01 09:10" -> <<"20260101", " ", "0910">>
      [] token = "2026/01/01 09:14" -> <<"20260101", " ", "0914">>
      [] token = "2026/13/01 09:10" -> <<"20261301", " ", "0910">>
      [] token = "09:14" -> <<"0914">>
      [] token \in {"~", "#pickup", "..."} -> <<>>
      [] OTHER -> <<token>>

RECURSIVE KeepSlugChars(_)
KeepSlugChars(text) ==
    IF text = <<>> THEN <<>>
    ELSE SlugChars(LowerCase(Head(text))) \o KeepSlugChars(Tail(text))

slugify(input) ==
    SliceChars(CollapseWhitespace(Trim(KeepSlugChars(input)), "-"), 60)

timezoneOffset(timezone) ==
    CASE timezone = "Asia/Seoul" -> 540
      [] timezone = "Asia/Tokyo" -> 540
      [] timezone = "UTC" -> 0
      [] OTHER -> 0

toUtcIsoAddOffset(token, timezone) ==
    IF IsNull(LocalMinutes(token)) THEN NULL
    ELSE Some(Val(LocalMinutes(token)) + timezoneOffset(timezone))

\* toUtcIso of the date-time a token names: the UTC minute, or null.
toUtcIso(token, timezone) ==
    IF IsNull(LocalMinutes(token)) THEN NULL
    ELSE Some(Val(LocalMinutes(token)) - timezoneOffset(timezone))

\* \s* in a pattern: the position after an optional blank.
SkipBlank(source, i) == IF i <= Len(source) /\ source[i] = " " THEN i + 1 ELSE i

\* The position after "\s*[~\-]\s*" from position i, or 0.
AfterSeparator(source, i) ==
    LET j == SkipBlank(source, i)
    IN IF j <= Len(source) /\ source[j] \in Separators THEN SkipBlank(source, j + 1) ELSE 0

\* The positions where one of the three patterns of extractDateRange matches.
FullRangeAt(source) ==
    { i \in 1..Len(source) :
        /\ source[i] \in DateTokens
        /\ AfterSeparator(source, i + 1) # 0
        /\ AfterSeparator(source, i + 1) <= Len(source)
        /\ source[AfterSeparator(source, i + 1)] \in DateTokens }

SameDateRangeAt(source) ==
    { i \in 1..Len(source) :
        /\ source[i] \in DateTokens
        /\ AfterSeparator(source, i + 1) # 0
        /\ AfterSeparator(source, i + 1) <= Len(source)
        /\ source[AfterSeparator(source, i + 1)] \in TimeTokens }

SingleAt(source) == { i \in 1..Len(source) : source[i] \in DateTokens }

First(S) == CHOOSE i \in S : \A j \in S : i <= j

\* Scores are counted in hundredths.
DateRange(startAtUtc, endAtUtc, score) ==
    [startAtUtc |-> startAtUtc, endAtUtc |-> endAtUtc, score |-> score]

MatchDateRangeSingleFirst(source, timezone) ==
    IF SingleAt(source) # {}
    THEN LET date == toUtcIso(source[First(SingleAt(source))], timezone)
         IN DateRange(date, NULL, IF ~IsNull(date) THEN 15 ELSE 5)
    ELSE DateRange(NULL, NULL, 0)

\* extractDateRange on the normalized text, lines 128-213.
MatchDateRange(source, timezone) ==
    IF FullRangeAt(source) # {}
    THEN LET i == First(FullRangeAt(source))
             startAtUtc == toUtcIso(source[i], timezone)
             endAtUtc == toUtcIso(source[AfterSeparator(source, i + 1)], timezone)
         IN DateRange(startAtUtc, endAtUtc,
                      IF ~IsNull(startAtUtc) /\ ~IsNull(endAtUtc) THEN 35 ELSE 15)
    ELSE IF SameDateRangeAt(source) # {}
    THEN LET i == First(SameDateRangeAt(source))
             startAtUtc == toUtcIso(source[i], timezone)
             endAtUtc == IF IsNull(startAtUtc) THEN NULL
                         ELSE toUtcIso(source[AfterSeparator(source, i + 1)], timezone)
         IN DateRange(startAtUtc, endAtUtc,
                      IF ~IsNull(startAtUtc) /\ ~IsNull(endAtUtc) THEN 30 ELSE 10)
    ELSE IF SingleAt(source) # {}
    THEN LET date == toUtcIso(source[First(SingleAt(source))], timezone)
         IN DateRange(date, NULL, IF ~IsNull(date) THEN 15 ELSE 5)
    ELSE DateRange(NULL, NULL, 0)

extractDateRange(text, timezone) == MatchDateRange(normalizeText(text), timezone)

pickupKeywords == {"pickup", "#pickup"}
updateKeywords == {"update"}
maintenanceKeywords == {"maintenance"}
campaignKeywords == {"campaign"}

detectEventTypeCampaignFirst(text) ==
    LET source == { LowerCase(text[i]) : i \in 1..Len(text) }
        hit(keywords) == source \cap keywords # {}
    IN IF hit(campaignKeywords) THEN [type |-> "CAMPAIGN", score |-> 20]
       ELSE IF hit(updateKeywords) THEN [type |-> "UPDATE", score |-> 22]
       ELSE IF hit(maintenanceKeywords) THEN [type |-> "MAINTENANCE", score |-> 25]
       ELSE IF hit(pickupKeywords) THEN [type |-> "PICKUP", score |-> 25]
       ELSE [type |-> "EVENT", score |-> 10]

detectEventType(text) ==
    LET source == { LowerCase(text[i]) : i \in 1..Len(text) }
        hit(keywords) == source \cap keywords # {}
    IN IF hit(pickupKeywords) THEN [type |-> "PICKUP", score |-> 25]
       ELSE IF hit(maintenanceKeywords) THEN [type |-> "MAINTENANCE", score |-> 25]
       ELSE IF hit(updateKeywords) THEN [type |-> "UPDATE", score |-> 22]
       ELSE IF hit(campaignKeywords) THEN [type |-> "CAMPAIGN", score |-> 20]
       ELSE [type |-> "EVENT", score |-> 10]

toCanonicalEventKey(regionId, type, title, startAtUtc, endAtUtc) ==
    LET base == <<regionId, type, slugify(title), startAtUtc, endAtUtc>>
    IN <<regionId, LowerCase(type), slugify(title), sha256(base)>>

\* A double is counted in thirds of a hundredth: Hundredth * h is the double
\* the literal h/100 denotes, one less and one more are doubles just below and
\* just above it.
Hundredth == 3

\* How the double 0.35 + typeScore + dateRange.score + summaryScore, added
\* left to right in IEEE-754 binary64, lies to the double its exact decimal
\* sum denotes: just below (-1), equal (0) or just above (1).
DoubleDrift(typeScore, dateScore, summaryScore) ==
    CASE <<typeScore, dateScore, summaryScore>> \in
            { <<25, 30, 10>>, <<25, 30, 0>>, <<25, 10, 10>>, <<22, 35, 0>>,
              <<22, 30, 10>>, <<22, 30, 0>>, <<22, 10, 10>>, <<22, 10, 0>>,
              <<22, 0, 10>>, <<10, 35, 10>>, <<10, 35, 0>>, <<10, 10, 10>>,
              <<10, 10, 0>>, <<10, 5, 0>>, <<10, 0, 10>>, <<10, 0, 0>> } -> 0 - 1
      [] <<typeScore, dateScore, summaryScore>> \in
            { <<20, 30, 10>>, <<20, 30, 0>>, <<20, 15, 0>>, <<20, 5, 10>>,
              <<20, 5, 0>> } -> 1
      [] OTHER -> 0

DoubleSum(typeScore, dateScore, summaryScore) ==
    Hundredth * (35 + typeScore + dateScore + summaryScore)
        + DoubleDrift(typeScore, dateScore, summaryScore)

\* A double stored in a NUMERIC(3,2) column: rounded to hundredths.
Numeric(double) == (double + 1) \div Hundredth

toVisibility(confidence) ==
    IF confidence >= Hundredth * 65 THEN "PUBLIC" ELSE "NEED_REVIEW"

DraftConfidenceUncapped(detected, dateRange, summary) ==
    DoubleSum(detected.score, dateRange.score,
              IF TextLen(summary) > 20 THEN 10 ELSE 0)

\* Math.min(1, 0.35 + ...), line 259.
DraftConfidence(detected, dateRange, summary) ==
    Min(Hundredth * 100,
        DoubleSum(detected.score, dateRange.score,
                  IF TextLen(summary) > 20 THEN 10 ELSE 0))

\* The draft parseRawNoticeToEventDraft returns, lines 259-269.
EventDraft(title, detected, dateRange, summary, confidence) ==
    [type |-> detected.type, title |-> title, summary |-> summary,
     startAtUtc |-> dateRange.startAtUtc, endAtUtc |-> dateRange.endAtUtc,
     confidence |-> confidence, visibility |-> toVisibility(confidence)]

DraftFrom(title, detected, dateRange, summary) ==
    EventDraft(title, detected, dateRange, summary,
               DraftConfidence(detected, dateRange, summary))

parseRawNoticeToEventDraft(title, contentText, timezone) ==
    DraftFrom(normalizeText(title),
              detectEventType(title \o <<"\n">> \o contentText),
              extractDateRange(title \o <<"\n">> \o contentText, timezone),
              summarize(IF contentText # <<>> THEN contentText ELSE title, 220))

EventTypes == {"PICKUP", "UPDATE", "MAINTENANCE", "EVENT", "CAMPAIGN"}
Visibilities == {"PUBLIC", "NEED_REVIEW", "HIDDEN"}
Scopes == {"GLOBAL", "REGION"}
Triggers == {"ON_START", "ON_END", "BEFORE_END", "BEFORE_START", "ON_PUBLISH"}
Channels == {"WEBPUSH", "EMAIL", "DISCORD"}
ScheduleStatuses == {"PENDING", "PROCESSING", "SENT", "FAILED", "CANCELED"}
DeliveryResults == {"SUCCESS", "FAILED"}

\* The concurrent callers: two dispatch workers and one planning caller.
Dispatchers == {1, 2}
Planners == {1}
\* Two runSourceFetch calls on one source: overlapping ticks of the worker, or
\* a manual run beside a scheduled one.
Fetchers == {1, 2}
\* The ticks of the worker: the first call and two firings of the interval timer.
WorkerTicks == {1, 2, 3}

VARIABLES
    now,                    \* the wall clock: NOW() and Date.now()
    users,                  \* users(id, email)
    push_subscriptions,     \* push_subscriptions(user_id)
    user_games,             \* user_games(user_id, region_id, enabled)
    notification_rules,     \* notification_rules
    events,                 \* events
    sources,                \* sources
    raw_notices,            \* raw_notices
    event_raw_links,        \* event_raw_links(event_id, raw_notice_id)
    ingest_runs,            \* ingest_runs, a bag
    nextEventId,            \* BIGSERIAL of events.id
    nextRawNoticeId,        \* BIGSERIAL of raw_notices.id
    notification_schedules, \* notification_schedules
    nextScheduleId,         \* BIGSERIAL of notification_schedules.id
    notification_deliveries,\* notification_deliveries, a bag of (schedule_id, result)
    disp,                   \* the locals of each dispatchDueNotifications call
    plan,                   \* the locals of each planning call
    fetch,                  \* the locals of each runSourceFetch call that runs beside another
    worker                  \* the ticks of the worker process

ingestVars == <<sources, raw_notices, event_raw_links, ingest_runs, nextEventId, nextRawNoticeId>>
dbVars == <<users, push_subscriptions, user_games, notification_rules, events, ingestVars>>
schedVars == <<notification_schedules, nextScheduleId, notification_deliveries>>
vars == <<now, dbVars, schedVars, disp, plan, fetch, worker>>

\* The database a query reads: the tables as they stand.
DB ==
    [users |-> users, push_subscriptions |-> push_subscriptions,
     user_games |-> user_games, notification_rules |-> notification_rules,
     events |-> events, notification_schedules |-> notification_schedules,
     nextScheduleId |-> nextScheduleId,
     notification_deliveries |-> notification_deliveries,
     sources |-> sources, raw_notices |-> raw_notices,
     event_raw_links |-> event_raw_links, ingest_runs |-> ingest_runs,
     nextEventId |-> nextEventId, nextRawNoticeId |-> nextRawNoticeId]

\* ------------------------------------------------------------ seeded data
\* The catalog the scheduling processes run against: users 1 and 2, regions 1
\* and 2, and the rules the users own.  Rules 1 and 2 of user 1 differ only
\* in scope and in a NULL against a 0 offset, which the unique index of
\* notification_rules allows.
UserIds == {1, 2}
RegionIds == {1, 2}
\* The ids a caller may pass to planNotificationsForEvent; 3 names no event.
PlanEventIds == {1, 2, 3}

SeedUsers ==
    { [id |-> 1, email |-> Some("u1@example.org")],
      [id |-> 2, email |-> NULL] }

SeedPushSubscriptions == { [user_id |-> 2] }

SeedUserGames ==
    { [user_id |-> 1, region_id |-> 1, enabled |-> TRUE],
      [user_id |-> 2, region_id |-> 1, enabled |-> TRUE],
      [user_id |-> 2, region_id |-> 2, enabled |-> FALSE] }

Rule(id, user, scope, region, type, trigger, offset, channel, enabled) ==
    [id |-> id, user_id |-> user, scope |-> scope, region_id |-> region,
     event_type |-> type, trigger |-> trigger, offset_minutes |-> offset,
     channel |-> channel, enabled |-> enabled]

SeedRules ==
    { Rule(1, 1, "GLOBAL", NULL, "PICKUP", "ON_START", NULL, "EMAIL", TRUE),
      Rule(2, 1, "REGION", Some(1), "PICKUP", "ON_START", Some(0), "EMAIL", TRUE),
      Rule(3, 1, "GLOBAL", NULL, "PICKUP", "BEFORE_END", Some(3), "DISCORD", TRUE),
      Rule(4, 2, "GLOBAL", NULL, "PICKUP", "ON_PUBLISH", NULL, "WEBPUSH", TRUE),
      Rule(5, 2, "REGION", Some(2), "PICKUP", "ON_START", NULL, "EMAIL", TRUE),
      Rule(6, 2, "GLOBAL", NULL, "PICKUP", "ON_END", NULL, "EMAIL", FALSE),
      Rule(7, 1, "GLOBAL", NULL, "PICKUP", "BEFORE_START", Some(5), "WEBPUSH", TRUE),
      Rule(8, 1, "GLOBAL", NULL, "PICKUP", "BEFORE_START", Some(7), "EMAIL", TRUE),
      Rule(9, 1, "GLOBAL", NULL, "MAINTENANCE", "BEFORE_END", Some(1), "EMAIL", TRUE) }

Event(id, region, type, title, startAt, endAt, createdAt, visibility, confidence) ==
    [id |-> id, region_id |-> region, type |-> type, title |-> title,
     summary |-> title, start_at_utc |-> startAt, end_at_utc |-> endAt,
     source_url |-> "seed",
     canonical_event_key |-> toCanonicalEventKey(region, type, title, startAt, endAt),
     confidence |-> confidence, visibility |-> visibility, created_at |-> createdAt]

SeedEvents ==
    { Event(1, 1, "PICKUP", <<"pickup">>, Some(10), Some(14), Some(9), "PUBLIC", 100),
      Event(2, 1, "MAINTENANCE", <<"maintenance">>, Some(12), NULL, Some(9), "NEED_REVIEW", 60) }

\* regions.timezone
RegionTimezone(regionId) ==
    CASE regionId = 1 -> "Asia/Seoul"
      [] regionId = 3 -> "Asia/Tokyo"
      [] OTHER -> "UTC"

Source(id, region, type, enabled) ==
    [id |-> id, region_id |-> region, type |-> type, enabled |-> enabled,
     fetch_interval_minutes |-> 1, last_success_at |-> NULL,
     last_error_at |-> NULL, last_error_message |-> NULL]

\* An RSS source, an API source (not implemented: its fetch throws) and a
\* disabled source.
SeedSources ==
    { Source(1, 1, "RSS", TRUE), Source(2, 1, "API", TRUE), Source(3, 2, "RSS", FALSE) }

\* The ids a caller may pass to runSourceFetch; 4 names no source.
FetchSourceIds == {1, 2, 3, 4}

\* The ingest tables before the first fetch.
InitIngest ==
    /\ sources = SeedSources
    /\ raw_notices = {}
    /\ event_raw_links = {}
    /\ ingest_runs = EmptyBag
    /\ nextEventId = Cardinality(SeedEvents) + 1
    /\ nextRawNoticeId = 1

\* ------------------------------------------------- services/scheduling.ts
\* toDate: the stored timestamps are valid, so only NULL maps to null.
toDate(value) == value

\* A computation that counts the offset forward from the basis date.
computeScheduledAtForward(rule, event, clock) ==
    LET startAt == toDate(event.start_at_utc)
        endAt == toDate(event.end_at_utc)
        createdAt == IF IsNull(toDate(event.created_at)) THEN Some(clock)
                     ELSE toDate(event.created_at)
        offset == IF IsNull(rule.offset_minutes) THEN 0 ELSE Val(rule.offset_minutes)
    IN CASE rule.trigger = "ON_START" -> startAt
         [] rule.trigger = "ON_END" -> endAt
         [] rule.trigger = "BEFORE_END" ->
                IF IsNull(endAt) THEN NULL ELSE Some(Val(endAt) + offset)
         [] rule.trigger = "BEFORE_START" ->
                IF IsNull(startAt) THEN NULL ELSE Some(Val(startAt) + offset)
         [] rule.trigger = "ON_PUBLISH" -> createdAt
         [] OTHER -> NULL

computeScheduledAt(rule, event, clock) ==
    LET startAt == toDate(event.start_at_utc)
        endAt == toDate(event.end_at_utc)
        createdAt == IF IsNull(toDate(event.created_at)) THEN Some(clock)
                     ELSE toDate(event.created_at)
        offset == IF IsNull(rule.offset_minutes) THEN 0 ELSE Val(rule.offset_minutes)
    IN CASE rule.trigger = "ON_START" -> startAt
         [] rule.trigger = "ON_END" -> endAt
         [] rule.trigger = "BEFORE_END" ->
                IF IsNull(endAt) THEN NULL ELSE Some(Val(endAt) - offset)
         [] rule.trigger = "BEFORE_START" ->
                IF IsNull(startAt) THEN NULL ELSE Some(Val(startAt) - offset)
         [] rule.trigger = "ON_PUBLISH" -> createdAt
         [] OTHER -> NULL

\* The columns of events that scheduling.ts selects (type EventRow).
EventRow(e) ==
    [id |-> e.id, region_id |-> e.region_id, type |-> e.type, title |-> e.title,
     start_at_utc |-> e.start_at_utc, end_at_utc |-> e.end_at_utc,
     created_at |-> e.created_at, visibility |-> e.visibility]

\* getEvent: the EventRow of the id, or none.
getEvent(db, eventId) == { EventRow(e) : e \in { x \in db.events : x.id = eventId } }

\* getEligibleRulesForEvent with a user id (every caller passes one).
getEligibleRulesForEvent(db, event, userId) ==
    { r \in db.notification_rules :
        /\ r.enabled
        /\ r.event_type = event.type
        /\ \/ r.scope = "GLOBAL"
           \/ r.scope = "REGION" /\ r.region_id = Some(event.region_id)
        /\ r.user_id = userId }

\* A target query that forgets the enabled flag of user_games.
getTargetUsersForRegionAll(db, regionId, explicitUserId) ==
    { g.user_id : g \in { x \in db.user_games :
        /\ x.region_id = regionId
        /\ explicitUserId # 0 => x.user_id = explicitUserId } }

\* getTargetUsersForRegion: explicitUserId 0 stands for "undefined".
getTargetUsersForRegion(db, regionId, explicitUserId) ==
    { g.user_id : g \in { x \in db.user_games :
        /\ x.region_id = regionId
        /\ x.enabled
        /\ explicitUserId # 0 => x.user_id = explicitUserId } }

\* makeDedupeKey joins the five parts with ":"; none of them holds a ":".
makeDedupeKey(userId, eventId, channel, trigger, offsetMinutes) ==
    <<userId, eventId, channel, trigger, offsetMinutes>>

RuleOffset(rule) == IF IsNull(rule.offset_minutes) THEN 0 ELSE Val(rule.offset_minutes)

\* A key per rule, not per (user, event, channel, trigger, offset).
RuleDedupeKeyPerRule(userId, event, rule) ==
    <<userId, event.id, rule.channel, rule.trigger, RuleOffset(rule), rule.id>>

\* The dedupeKey upsertSchedule computes for a rule (line 131).
RuleDedupeKey(userId, event, rule) ==
    makeDedupeKey(userId, event.id, rule.channel, rule.trigger, RuleOffset(rule))

\* The row upsertSchedule inserts.
NewScheduleRow(id, userId, event, rule, scheduledAt) ==
    [id |-> id, user_id |-> userId, event_id |-> event.id, channel |-> rule.channel,
     trigger_type |-> rule.trigger, trigger_offset_minutes |-> RuleOffset(rule),
     scheduled_at_utc |-> scheduledAt, status |-> "PENDING",
     payload_json |-> [eventTitle |-> event.title, eventType |-> event.type,
                       trigger |-> rule.trigger, offsetMinutes |-> RuleOffset(rule),
                       channel |-> rule.channel],
     dedupe_key |-> RuleDedupeKey(userId, event, rule)]

\* An upsert that resets every conflicting row, a SENT one included.
UpsertConflictStatusReset(status) == "PENDING"

\* ON CONFLICT (dedupe_key) DO UPDATE: the status a conflicting row gets.
UpsertConflictStatus(status) == IF status = "SENT" THEN status ELSE "PENDING"

\* An upsert with no ON CONFLICT clause and no unique index: a plain INSERT.
UpsertScheduleInsert(rows, id, userId, event, rule, scheduledAt) ==
    rows \cup {NewScheduleRow(id, userId, event, rule, scheduledAt)}

\* upsertSchedule on the table `rows`: the new table.
UpsertSchedule(rows, id, userId, event, rule, scheduledAt) ==
    LET fresh == NewScheduleRow(id, userId, event, rule, scheduledAt)
        hit == { r \in rows : r.dedupe_key = fresh.dedupe_key }
    IN IF hit = {}
       THEN rows \cup {fresh}
       ELSE (rows \ hit) \cup
            { [r EXCEPT !.scheduled_at_utc = fresh.scheduled_at_utc,
                        !.payload_json = fresh.payload_json,
                        !.status = UpsertConflictStatus(r.status)] : r \in hit }

UpsertInserts(rows, userId, event, rule) ==
    \A r \in rows : r.dedupe_key # RuleDedupeKey(userId, event, rule)

\* The statuses the DELETE of a re-plan removes.
PurgedStatuses == {"PENDING", "FAILED", "CANCELED"}

\* notification_deliveries.schedule_id ... ON DELETE CASCADE
CascadeDeliveries(deliveries, keptRows) ==
    LET keptIds == { r.id : r \in keptRows }
        dom == { d \in BagToSet(deliveries) : d.schedule_id \in keptIds }
    IN [ d \in dom |-> deliveries[d] ]

\* ------------------------------------------------ planning, step by step
NoEvent == [id |-> 0]

\* The locals of a planning call that is not running.
IdlePlan ==
    [pc |-> "idle", op |-> "none", event |-> NoEvent, now |-> 0, user |-> 0,
     targets |-> {}, work |-> <<>>, events |-> {}, planned |-> 0, skipped |-> 0]

\* The locals of a runSourceFetch call that is not running.
IdleFetch ==
    [pc |-> "idle", mode |-> "none", source |-> [id |-> 0], i |-> 0, existing |-> {},
     rawNoticeId |-> 0, rawNotice |-> [id |-> 0], eventId |-> 0,
     parsedCount |-> 0, errorCount |-> 0]

\* A tick of the worker that has not begun.
IdleTick == [pc |-> "idle", ingest |-> "none", dispatch |-> "none"]

\* A row that an open claim transaction has locked (SELECT ... FOR UPDATE).
LockedIds ==
    UNION { { r.id : r \in disp[d].schedules } :
              d \in { x \in Dispatchers : disp[x].pc = "claimed" } }

\* A 5-minute rule that also drops the time exactly 5 minutes past.
TooLateInclusive(scheduledAt, clock) == scheduledAt <= clock - GraceMinutes

\* The 5-minute rule of line 200.
TooLate(scheduledAt, clock) == scheduledAt < clock - GraceMinutes

\* Lines 194-203: the rule gets no schedule (no basis date, or too late).
RuleSkipped(rule, event, planNow, clock) ==
    LET scheduledAt == computeScheduledAt(rule, event, clock)
    IN IsNull(scheduledAt) \/ TooLate(Val(scheduledAt), planNow)

\* rebuildSchedulesForUser, lines 253-254: planForEventAndUsers(event, userId)
\* of one of the selected events (all PUBLIC), up to the await of line 177.
RebuildNextEvent(l, event) ==
    [l EXCEPT !.pc = "targets", !.event = event, !.events = @ \ {event},
              !.now = now, !.targets = {}, !.work = <<>>]

\* planForEventAndUsers returns.  Inside rebuildSchedulesForUser (lines
\* 253-257) the loop goes on with another selected event; otherwise the call
\* returns to its caller and its locals are gone.
PlanForEventDone(l) ==
    IF l.op = "rebuild" /\ l.events # {}
    THEN { RebuildNextEvent(l, event) : event \in l.events }
    ELSE { IdlePlan }

\* planNotificationsForEvent, lines 213-217: getEvent.
PlanGetEvent(p, eventId) ==
    /\ plan[p].pc = "idle"
    /\ plan' = [plan EXCEPT ![p] =
          IF getEvent(DB, eventId) = {} THEN IdlePlan
          ELSE [IdlePlan EXCEPT !.pc = "delete", !.op = "plan",
                                !.event = CHOOSE e \in getEvent(DB, eventId) : TRUE]]
    /\ UNCHANGED <<now, dbVars, schedVars, disp, fetch, worker>>

\* The table after DELETE ... WHERE <scope> AND status IN (PENDING, FAILED, CANCELED).
PurgeSchedules(rows, scope) ==
    { r \in rows : ~(r \in scope /\ r.status \in PurgedStatuses) }

\* A DELETE waits for the rows an open claim has locked.
PurgeWaits(scope) ==
    \E r \in scope : r.status \in PurgedStatuses /\ r.id \in LockedIds

\* planNotificationsForEvent, lines 219-225: the DELETE, then the entry of
\* planForEventAndUsers (lines 172-176).
PlanDelete(p) ==
    /\ plan[p].pc = "delete"
    /\ LET scope == { r \in notification_schedules : r.event_id = plan[p].event.id }
           kept == PurgeSchedules(notification_schedules, scope)
       IN /\ ~PurgeWaits(scope)
          /\ notification_schedules' = kept
          /\ notification_deliveries' = CascadeDeliveries(notification_deliveries, kept)
    /\ plan' = [plan EXCEPT ![p] =
          IF plan[p].event.visibility # "PUBLIC" THEN IdlePlan
          ELSE [@ EXCEPT !.pc = "targets", !.now = now]]
    /\ UNCHANGED <<now, dbVars, nextScheduleId, disp, fetch, worker>>

\* planForEventAndUsers, lines 177-180: getTargetUsersForRegion.
PlanTargets(p) ==
    /\ plan[p].pc = "targets"
    /\ LET targetUsers == getTargetUsersForRegion(DB, plan[p].event.region_id, plan[p].user)
       IN IF targetUsers = {}
          THEN \E l \in PlanForEventDone(plan[p]) : plan' = [plan EXCEPT ![p] = l]
          ELSE plan' = [plan EXCEPT ![p] = [@ EXCEPT !.pc = "rules", !.targets = targetUsers]]
    /\ UNCHANGED <<now, dbVars, schedVars, disp, fetch, worker>>

\* The work list without the leading users whose rules are all done.
RECURSIVE DropDone(_)
DropDone(work) ==
    IF work = <<>> THEN <<>>
    ELSE IF Head(work).rules = {} THEN DropDone(Tail(work))
    ELSE work

\* planForEventAndUsers, lines 187-190: one getEligibleRulesForEvent query per
\* target user, in the order the users came back; the Map keeps that order.
\* A rule that lines 194-203 skip touches no table: it is counted as soon as
\* it is read, and the work list keeps the rules that reach upsertSchedule.
\* After the last query the loop of lines 192-208 runs up to its first upsert.
PlanRules(p, userId) ==
    /\ plan[p].pc = "rules"
    /\ userId \in plan[p].targets
    /\ LET l == plan[p]
           rules == getEligibleRulesForEvent(DB, l.event, userId)
           skip == { r \in rules : RuleSkipped(r, l.event, l.now, now) }
           work == Append(l.work, [userId |-> userId, rules |-> rules \ skip])
           read == [l EXCEPT !.skipped = @ + Cardinality(skip),
                             !.targets = @ \ {userId}, !.work = work]
       IN IF read.targets # {}
          THEN plan' = [plan EXCEPT ![p] = read]
          ELSE IF DropDone(work) = <<>>
          THEN \E n \in PlanForEventDone(read) : plan' = [plan EXCEPT ![p] = n]
          ELSE plan' = [plan EXCEPT ![p] = [read EXCEPT !.pc = "upsert", !.work = DropDone(work)]]
    /\ UNCHANGED <<now, dbVars, schedVars, disp, fetch, worker>>

\* The work list with `rule` of the first user done.
WorkAfter(work, rule) ==
    DropDone(<<[Head(work) EXCEPT !.rules = @ \ {rule}]>> \o Tail(work))

\* An upsert waits for a conflicting row that an open claim has locked.
UpsertWaits(userId, event, rule) ==
    \E r \in notification_schedules :
        r.dedupe_key = RuleDedupeKey(userId, event, rule) /\ r.id \in LockedIds

\* planForEventAndUsers, lines 205-206: upsertSchedule of the next rule of
\* the current user (the rules of a user come in no stated order).
PlanUpsertRule(p, rule) ==
    /\ plan[p].pc = "upsert"
    /\ rule \in Head(plan[p].work).rules
    /\ LET l == plan[p]
           userId == Head(l.work).userId
           scheduledAt == computeScheduledAt(rule, l.event, now)
           inserts == UpsertInserts(notification_schedules, userId, l.event, rule)
           done == [l EXCEPT !.planned = @ + 1, !.work = WorkAfter(@, rule)]
       IN /\ inserts => nextScheduleId <= MaxScheduleId
          /\ ~UpsertWaits(userId, l.event, rule)
          /\ notification_schedules' =
                UpsertSchedule(notification_schedules, nextScheduleId, userId,
                               l.event, rule, Val(scheduledAt))
          /\ nextScheduleId' = IF inserts THEN nextScheduleId + 1 ELSE nextScheduleId
          /\ IF done.work = <<>>
             THEN \E n \in PlanForEventDone(done) : plan' = [plan EXCEPT ![p] = n]
             ELSE plan' = [plan EXCEPT ![p] = done]
    /\ UNCHANGED <<now, dbVars, notification_deliveries, disp, fetch, worker>>

\* rebuildSchedulesForUser, lines 230-234: the DELETE of the user's rows.
RebuildDelete(p, userId) ==
    /\ plan[p].pc = "idle"
    /\ LET scope == { r \in notification_schedules : r.user_id = userId }
           kept == PurgeSchedules(notification_schedules, scope)
       IN /\ ~PurgeWaits(scope)
          /\ notification_schedules' = kept
          /\ notification_deliveries' = CascadeDeliveries(notification_deliveries, kept)
    /\ plan' = [plan EXCEPT ![p] =
          [IdlePlan EXCEPT !.pc = "rebuildSelect", !.op = "rebuild", !.user = userId]]
    /\ UNCHANGED <<now, dbVars, nextScheduleId, disp, fetch, worker>>

\* A select that forgets the one-day test on end_at_utc.
RebuildEventsAnyEnd(db, userId, clock) ==
    { EventRow(e) : e \in { x \in db.events :
        /\ \E g \in db.user_games :
              g.region_id = x.region_id /\ g.user_id = userId /\ g.enabled
        /\ x.visibility = "PUBLIC" } }

\* The events rebuildSchedulesForUser selects, lines 236-248.
RebuildEvents(db, userId, clock) ==
    { EventRow(e) : e \in { x \in db.events :
        /\ \E g \in db.user_games :
              g.region_id = x.region_id /\ g.user_id = userId /\ g.enabled
        /\ x.visibility = "PUBLIC"
        /\ IsNull(x.end_at_utc) \/ Val(x.end_at_utc) >= clock - DayMinutes } }

\* rebuildSchedulesForUser, lines 236-254: the SELECT of the events, and the
\* loop up to the first await of planForEventAndUsers.
RebuildSelect(p) ==
    /\ plan[p].pc = "rebuildSelect"
    /\ \E n \in PlanForEventDone([plan[p] EXCEPT !.events = RebuildEvents(DB, plan[p].user, now)]) :
          plan' = [plan EXCEPT ![p] = n]
    /\ UNCHANGED <<now, dbVars, schedVars, disp, fetch, worker>>

\* --------------------------------------------------- services/dispatch.ts
\* A claim query without SKIP LOCKED that reads the rows another open claim holds.
ClaimCandidatesNoSkip(rows, clock, locked) ==
    { r \in rows : r.status = "PENDING" /\ r.scheduled_at_utc <= clock }

\* The rows the claim query may pick: PENDING, due, and not locked by another
\* open claim (FOR UPDATE SKIP LOCKED).
ClaimCandidates(rows, clock, locked) ==
    { r \in rows : r.status = "PENDING" /\ r.scheduled_at_utc <= clock /\ r.id \notin locked }

\* LIMIT $1 with no ORDER BY: any rows.
ClaimPicksUnordered(cand, limit) ==
    { S \in SUBSET cand : Cardinality(S) = Min(limit, Cardinality(cand)) }

\* ORDER BY scheduled_at_utc ASC LIMIT $1: any choice of the earliest rows.
ClaimPicks(cand, limit) ==
    { S \in SUBSET cand :
        /\ Cardinality(S) = Min(limit, Cardinality(cand))
        /\ \A s \in S : \A c \in cand \ S : s.scheduled_at_utc <= c.scheduled_at_utc }

NoRow == [id |-> 0]

\* The locals of a dispatch call that is not running.
IdleDispatch ==
    [pc |-> "idle", schedules |-> {}, batch |-> {}, cur |-> NoRow,
     result |-> "FAILED", catch |-> FALSE, sent |-> 0, failed |-> 0]

\* dispatchDueNotifications, lines 60-82: BEGIN and the claim query.  The
\* picked rows stay locked, and their new status unseen, until COMMIT.
DispatchClaim(d, limit) ==
    /\ disp[d].pc = "idle"
    /\ \E S \in ClaimPicks(ClaimCandidates(notification_schedules, now, LockedIds), limit) :
          disp' = [disp EXCEPT ![d] = [IdleDispatch EXCEPT !.pc = "claimed", !.schedules = S]]
    /\ UNCHANGED <<now, dbVars, schedVars, plan, fetch, worker>>

hasPushSubscription(db, userId) == \E s \in db.push_subscriptions : s.user_id = userId
hasEmail(db, userId) == \E u \in db.users : u.id = userId /\ ~IsNull(u.email)

\* An outcome with no test of the DISCORD channel.
DeliveryOutcomeDiscordSent(db, schedule) ==
    IF schedule.channel = "WEBPUSH" /\ ~hasPushSubscription(db, schedule.user_id) THEN "FAILED"
    ELSE IF schedule.channel = "EMAIL" /\ ~hasEmail(db, schedule.user_id) THEN "FAILED"
    ELSE "SUCCESS"

\* The outcome lines 101-136 pick for a schedule.
DeliveryOutcome(db, schedule) ==
    IF schedule.channel = "WEBPUSH" /\ ~hasPushSubscription(db, schedule.user_id) THEN "FAILED"
    ELSE IF schedule.channel = "EMAIL" /\ ~hasEmail(db, schedule.user_id) THEN "FAILED"
    ELSE IF schedule.channel = "DISCORD" THEN "FAILED"
    ELSE "SUCCESS"

\* dispatchDueNotifications, lines 96-136: the loop takes a schedule of the
\* batch (the rows of RETURNING come in no stated order) up to the INSERT of
\* its markScheduleResult, or returns (lines 144-148) when none is left: the
\* locals of the call are gone.
DispatchNext(l) ==
    IF l.batch = {}
    THEN { IdleDispatch }
    ELSE { [l EXCEPT !.pc = "insert", !.batch = @ \ {schedule}, !.cur = schedule,
                     !.result = DeliveryOutcome(DB, schedule), !.catch = FALSE] :
             schedule \in l.batch }

\* The table after the UPDATE of the claim query is committed.
ClaimRows(rows, ids) ==
    { IF r.id \in ids THEN [r EXCEPT !.status = "PROCESSING"] ELSE r : r \in rows }

\* dispatchDueNotifications, lines 84-85: COMMIT.
DispatchCommit(d) ==
    /\ disp[d].pc = "claimed"
    /\ notification_schedules' =
          ClaimRows(notification_schedules, { r.id : r \in disp[d].schedules })
    /\ \E n \in DispatchNext([disp[d] EXCEPT !.batch = disp[d].schedules]) :
          disp' = [disp EXCEPT ![d] = n]
    /\ UNCHANGED <<now, dbVars, nextScheduleId, notification_deliveries, plan, fetch, worker>>

\* dispatchDueNotifications, lines 86-88: the claim failed; ROLLBACK and throw.
DispatchRollback(d) ==
    /\ disp[d].pc = "claimed"
    /\ disp' = [disp EXCEPT ![d] = IdleDispatch]
    /\ UNCHANGED <<now, dbVars, schedVars, plan, fetch, worker>>

ScheduleExists(rows, id) == \E r \in rows : r.id = id

DeliveryRow(scheduleId, result) == [schedule_id |-> scheduleId, result |-> result]

\* markScheduleResult, lines 20-28: INSERT INTO notification_deliveries.  The
\* foreign key reads the schedule row, and waits while an open claim locks it.
MarkInsert(d) ==
    /\ disp[d].pc = "insert"
    /\ ScheduleExists(notification_schedules, disp[d].cur.id)
    /\ disp[d].cur.id \notin LockedIds
    /\ BagCardinality(notification_deliveries) < MaxDeliveries
    /\ notification_deliveries' =
          notification_deliveries (+) SetToBag({DeliveryRow(disp[d].cur.id, disp[d].result)})
    /\ disp' = [disp EXCEPT ![d].pc = "update"]
    /\ UNCHANGED <<now, dbVars, notification_schedules, nextScheduleId, plan, fetch, worker>>

\* markScheduleResult, lines 20-28, when the schedule row is gone: the
\* foreign key of schedule_id rejects the INSERT.  Inside the try, the catch
\* of lines 137-139 calls markScheduleResult again; inside the catch the
\* error leaves dispatchDueNotifications with the rest of the batch undone.
MarkInsertRejected(d) ==
    /\ disp[d].pc = "insert"
    /\ ~ScheduleExists(notification_schedules, disp[d].cur.id)
    /\ disp' = [disp EXCEPT ![d] =
          IF disp[d].catch THEN IdleDispatch
          ELSE [@ EXCEPT !.catch = TRUE, !.result = "FAILED"]]
    /\ UNCHANGED <<now, dbVars, schedVars, plan, fetch, worker>>

\* The status markScheduleResult writes, line 35.
ResultStatus(result) == IF result = "SUCCESS" THEN "SENT" ELSE "FAILED"

\* The table after UPDATE notification_schedules SET status ... WHERE id = $1.
MarkRows(rows, id, result) ==
    { IF r.id = id THEN [r EXCEPT !.status = ResultStatus(result)] ELSE r : r \in rows }

\* markScheduleResult, lines 30-36: the UPDATE, then the counter of the
\* caller and the next turn of its loop.
MarkUpdate(d) ==
    /\ disp[d].pc = "update"
    /\ disp[d].cur.id \notin LockedIds
    /\ notification_schedules' =
          MarkRows(notification_schedules, disp[d].cur.id, disp[d].result)
    /\ \E n \in DispatchNext(
              [disp[d] EXCEPT !.sent = IF disp[d].result = "SUCCESS" THEN @ + 1 ELSE @,
                              !.failed = IF disp[d].result = "SUCCESS" THEN @ ELSE @ + 1]) :
          disp' = [disp EXCEPT ![d] = n]
    /\ UNCHANGED <<now, dbVars, nextScheduleId, notification_deliveries, plan, fetch, worker>>

\* The clock moves on.
Tick ==
    /\ now < MaxNow
    /\ now' = now + 1
    /\ UNCHANGED <<dbVars, schedVars, disp, plan, fetch, worker>>

\* ---------------------------------------------------------- specification
\* The rules of the interleaved runs: two due schedules of event 1, one of
\* them wanted by two rules, and a rule that comes too late.
InterleavedRuleIds == {1, 2, 4, 8}

\* The seeded catalog at minute 10, with nothing planned yet.
Init ==
    /\ now = 10
    /\ users = SeedUsers
    /\ push_subscriptions = SeedPushSubscriptions
    /\ user_games = SeedUserGames
    /\ notification_rules = { r \in SeedRules : r.id \in InterleavedRuleIds }
    /\ events = SeedEvents
    /\ InitIngest
    /\ notification_schedules = {}
    /\ nextScheduleId = 1
    /\ notification_deliveries = EmptyBag
    /\ disp = [d \in Dispatchers |-> IdleDispatch]
    /\ plan = [p \in Planners |-> IdlePlan]
    /\ fetch = [f \in Fetchers |-> IdleFetch]
    /\ worker = [t \in WorkerTicks |-> IdleTick]

PlanStep ==
    \E p \in Planners :
        \/ \E eventId \in PlanEventIds : PlanGetEvent(p, eventId)
        \/ PlanDelete(p)
        \/ PlanTargets(p)
        \/ \E userId \in UserIds : PlanRules(p, userId)
        \/ \E rule \in notification_rules : PlanUpsertRule(p, rule)
        \/ \E userId \in UserIds : RebuildDelete(p, userId)
        \/ RebuildSelect(p)

DispatchStep ==
    \E d \in Dispatchers :
        \/ \E limit \in 1..MaxLimit : DispatchClaim(d, limit)
        \/ DispatchCommit(d)
        \/ DispatchRollback(d)
        \/ MarkInsert(d)
        \/ MarkInsertRejected(d)
        \/ MarkUpdate(d)

Next == PlanStep \/ DispatchStep

Spec == Init /\ [][Next]_vars

\* ------------------------------------------- dispatch workers on their own
SeedRule(id) == CHOOSE r \in SeedRules : r.id = id
SeedEvent(id) == CHOOSE e \in SeedEvents : e.id = id

\* The rules behind the rows the dispatch workers start from.
DispatchRuleIds == {1, 2, 3, 4, 8}

\* What planNotificationsForEvent(1) leaves at minute 10 under those rules:
\* rules 1 and 2 share a row, rule 3 is due at minute 11, rule 4 was due at
\* minute 9, and rule 8 comes too late.
PlannedSchedules ==
    { NewScheduleRow(1, 1, EventRow(SeedEvent(1)), SeedRule(1), 10),
      NewScheduleRow(2, 1, EventRow(SeedEvent(1)), SeedRule(3), 11),
      NewScheduleRow(3, 2, EventRow(SeedEvent(1)), SeedRule(4), 9) }

InitDispatch ==
    /\ now = 10
    /\ users = SeedUsers
    /\ push_subscriptions = SeedPushSubscriptions
    /\ user_games = SeedUserGames
    /\ notification_rules = { r \in SeedRules : r.id \in DispatchRuleIds }
    /\ events = SeedEvents
    /\ InitIngest
    /\ notification_schedules = PlannedSchedules
    /\ nextScheduleId = Cardinality(PlannedSchedules) + 1
    /\ notification_deliveries = EmptyBag
    /\ disp = [d \in Dispatchers |-> IdleDispatch]
    /\ plan = [p \in Planners |-> IdlePlan]
    /\ fetch = [f \in Fetchers |-> IdleFetch]
    /\ worker = [t \in WorkerTicks |-> IdleTick]

\* Concurrent dispatchDueNotifications calls and the clock, with no planning.
NextDispatch ==
    \/ Tick
    \/ \E d \in Dispatchers :
        \/ \E limit \in 1..MaxLimit : DispatchClaim(d, limit)
        \/ DispatchCommit(d)
        \/ DispatchRollback(d)
        \/ MarkInsert(d)
        \/ MarkUpdate(d)

SpecDispatch == InitDispatch /\ [][NextDispatch]_vars

\* ------------------------------------- dispatch workers, any user data
\* The dispatch workers start from the planned rows (an EMAIL and a DISCORD
\* row of user 1, a WEBPUSH row of user 2) with any choice of the users that
\* have an email on file and of the users that have a push subscription.
InitOutcome ==
    /\ now = 10
    /\ \E withEmail \in SUBSET UserIds :
          users = { [id |-> u, email |-> IF u \in withEmail THEN Some("on file") ELSE NULL] :
                      u \in UserIds }
    /\ \E subscribed \in SUBSET UserIds :
          push_subscriptions = { [user_id |-> u] : u \in subscribed }
    /\ user_games = SeedUserGames
    /\ notification_rules = { r \in SeedRules : r.id \in DispatchRuleIds }
    /\ events = SeedEvents
    /\ InitIngest
    /\ notification_schedules = PlannedSchedules
    /\ nextScheduleId = Cardinality(PlannedSchedules) + 1
    /\ notification_deliveries = EmptyBag
    /\ disp = [d \in Dispatchers |-> IdleDispatch]
    /\ plan = [p \in Planners |-> IdlePlan]
    /\ fetch = [f \in Fetchers |-> IdleFetch]
    /\ worker = [t \in WorkerTicks |-> IdleTick]

SpecOutcome == InitOutcome /\ [][NextDispatch]_vars

\* ------------------------------------------------- handlers, one at a time
\* upsertSchedule on the database.
UpsertDB(db, userId, event, rule, clock) ==
    LET scheduledAt == computeScheduledAt(rule, event, clock)
        rows == db.notification_schedules
    IN [db EXCEPT
          !.notification_schedules =
              UpsertSchedule(rows, db.nextScheduleId, userId, event, rule, Val(scheduledAt)),
          !.nextScheduleId = IF UpsertInserts(rows, userId, event, rule) THEN @ + 1 ELSE @]

\* The queries of scheduling.ts have no ORDER BY.  The order of the rows
\* decides only which id a new schedule gets; a handler that runs alone takes
\* them by ascending id.
FirstById(S) == CHOOSE x \in S : \A y \in S : x.id <= y.id

\* planForEventAndUsers, lines 192-208, for one user: the database after the
\* upserts of the rules.
RECURSIVE PlanUserRules(_, _, _, _, _)
PlanUserRules(db, userId, event, rules, clock) ==
    IF rules = {} THEN db
    ELSE LET rule == FirstById(rules)
         IN PlanUserRules(UpsertDB(db, userId, event, rule, clock),
                          userId, event, rules \ {rule}, clock)

\* The rules of a user that lines 194-203 do not skip.
PlannedRules(db, event, userId, clock) ==
    { r \in getEligibleRulesForEvent(db, event, userId) : ~RuleSkipped(r, event, clock, clock) }

\* planForEventAndUsers, lines 192-208: user after user.
RECURSIVE PlanUsers(_, _, _, _)
PlanUsers(db, event, userIds, clock) ==
    IF userIds = {} THEN db
    ELSE LET userId == CHOOSE u \in userIds : \A v \in userIds : u <= v
         IN PlanUsers(PlanUserRules(db, userId, event,
                                    PlannedRules(db, event, userId, clock), clock),
                      event, userIds \ {userId}, clock)

\* A planner that forgets the visibility of the event.
planForEventAndUsersAnyVisibility(db, event, explicitUserId, clock) ==
    PlanUsers(db, event, getTargetUsersForRegion(db, event.region_id, explicitUserId), clock)

\* planForEventAndUsers run to its end with the clock at `clock`.
planForEventAndUsers(db, event, explicitUserId, clock) ==
    IF event.visibility # "PUBLIC" THEN db
    ELSE PlanUsers(db, event,
                   getTargetUsersForRegion(db, event.region_id, explicitUserId), clock)

\* The (user, rule) pairs the loops of lines 187-208 go through.
PlanPairs(db, event, explicitUserId) ==
    UNION { { <<userId, rule>> : rule \in getEligibleRulesForEvent(db, event, userId) } :
              userId \in getTargetUsersForRegion(db, event.region_id, explicitUserId) }

\* What planForEventAndUsers returns: { planned, skipped }, lines 172-210.
planForEventAndUsersResult(db, event, explicitUserId, clock) ==
    IF event.visibility # "PUBLIC" THEN [planned |-> 0, skipped |-> 0]
    ELSE LET pairs == PlanPairs(db, event, explicitUserId)
             skip == { x \in pairs : RuleSkipped(x[2], event, clock, clock) }
         IN [planned |-> Cardinality(pairs \ skip), skipped |-> Cardinality(skip)]

\* The database after the DELETE of a re-plan and its cascade.
PurgeDB(db, scope) ==
    LET kept == PurgeSchedules(db.notification_schedules, scope)
    IN [db EXCEPT !.notification_schedules = kept,
                  !.notification_deliveries = CascadeDeliveries(@, kept)]

\* planNotificationsForEvent run to its end.
planNotificationsForEvent(db, eventId, clock) ==
    IF getEvent(db, eventId) = {} THEN db
    ELSE LET event == CHOOSE e \in getEvent(db, eventId) : TRUE
         IN planForEventAndUsers(
                PurgeDB(db, { r \in db.notification_schedules : r.event_id = eventId }),
                event, 0, clock)

\* rebuildSchedulesForUser, lines 253-254: event after event.
RECURSIVE RebuildUserEvents(_, _, _, _)
RebuildUserEvents(db, userId, selected, clock) ==
    IF selected = {} THEN db
    ELSE LET event == FirstById(selected)
         IN RebuildUserEvents(planForEventAndUsers(db, event, userId, clock),
                              userId, selected \ {event}, clock)

\* rebuildSchedulesForUser run to its end.
rebuildSchedulesForUser(db, userId, clock) ==
    RebuildUserEvents(PurgeDB(db, { r \in db.notification_schedules : r.user_id = userId }),
                      userId, RebuildEvents(db, userId, clock), clock)

\* A handler's writes reach the tables; the id sequence stays within its bound.
WriteDB(db) ==
    /\ db.nextScheduleId <= MaxSeqScheduleId + 1
    /\ users' = db.users
    /\ push_subscriptions' = db.push_subscriptions
    /\ user_games' = db.user_games
    /\ notification_rules' = db.notification_rules
    /\ events' = db.events
    /\ notification_schedules' = db.notification_schedules
    /\ nextScheduleId' = db.nextScheduleId
    /\ notification_deliveries' = db.notification_deliveries
    /\ sources' = db.sources
    /\ raw_notices' = db.raw_notices
    /\ event_raw_links' = db.event_raw_links
    /\ ingest_runs' = db.ingest_runs
    /\ nextEventId' = db.nextEventId
    /\ nextRawNoticeId' = db.nextRawNoticeId

\* A call of planNotificationsForEvent with nothing running beside it.
PlanNotificationsForEvent(eventId) ==
    /\ WriteDB(planNotificationsForEvent(DB, eventId, now))
    /\ UNCHANGED <<now, disp, plan, fetch, worker>>

\* A call of rebuildSchedulesForUser with nothing running beside it.
RebuildSchedulesForUser(userId) ==
    /\ WriteDB(rebuildSchedulesForUser(DB, userId, now))
    /\ UNCHANGED <<now, disp, plan, fetch, worker>>

\* The user_games table after the upsert of POST /me/games.
SaveGameRows(games, userId, regionId, enabled) ==
    { g \in games : ~(g.user_id = userId /\ g.region_id = regionId) }
        \cup { [user_id |-> userId, region_id |-> regionId, enabled |-> enabled] }

\* POST /me/games: the upsert of the user_games row, then the rebuild.
SaveGame(userId, regionId, enabled) ==
    /\ WriteDB(rebuildSchedulesForUser(
                   [DB EXCEPT !.user_games = SaveGameRows(@, userId, regionId, enabled)],
                   userId, now))
    /\ UNCHANGED <<now, disp, plan, fetch, worker>>

\* The deliveries and statuses markScheduleResult leaves for the claimed rows.
RECURSIVE MarkAll(_, _)
MarkAll(db, schedules) ==
    IF schedules = {} THEN db
    ELSE LET schedule == FirstById(schedules)
             result == DeliveryOutcome(db, schedule)
         IN MarkAll([db EXCEPT
                        !.notification_schedules = MarkRows(@, schedule.id, result),
                        !.notification_deliveries =
                            @ (+) SetToBag({DeliveryRow(schedule.id, result)})],
                    schedules \ {schedule})

\* dispatchDueNotifications run to its end: one outcome per possible claim.
dispatchDueNotifications(db, limit, clock) ==
    { MarkAll(db, S) : S \in ClaimPicks(ClaimCandidates(db.notification_schedules, clock, {}), limit) }

\* A call of dispatchDueNotifications with nothing running beside it.
DispatchDueNotifications(limit) ==
    /\ \E db \in dispatchDueNotifications(DB, limit, now) : WriteDB(db)
    /\ UNCHANGED <<now, disp, plan, fetch, worker>>

\* The seeded catalog at minute 10 under all the seed rules, nothing planned.
InitSeq ==
    /\ now = 10
    /\ users = SeedUsers
    /\ push_subscriptions = SeedPushSubscriptions
    /\ user_games = SeedUserGames
    /\ notification_rules = SeedRules
    /\ events = SeedEvents
    /\ InitIngest
    /\ notification_schedules = {}
    /\ nextScheduleId = 1
    /\ notification_deliveries = EmptyBag
    /\ disp = [d \in Dispatchers |-> IdleDispatch]
    /\ plan = [p \in Planners |-> IdlePlan]
    /\ fetch = [f \in Fetchers |-> IdleFetch]
    /\ worker = [t \in WorkerTicks |-> IdleTick]

NextSeq ==
    \/ Tick
    \/ \E eventId \in PlanEventIds : PlanNotificationsForEvent(eventId)
    \/ \E userId \in UserIds : RebuildSchedulesForUser(userId)
    \/ \E userId \in UserIds, regionId \in RegionIds, enabled \in BOOLEAN :
          SaveGame(userId, regionId, enabled)
    \/ \E limit \in 1..MaxLimit : DispatchDueNotifications(limit)

SpecSeq == InitSeq /\ [][NextSeq]_vars

\* ---------------------------------------- the worker's tick and re-planning
\* The handlers that leave events, rules and subscriptions as they are: the
\* planners at any time, and the dispatch the worker asks for at every tick
\* of its interval timer.
NextLive ==
    \/ Tick
    \/ \E eventId \in PlanEventIds : PlanNotificationsForEvent(eventId)
    \/ \E userId \in UserIds : RebuildSchedulesForUser(userId)
    \/ \E limit \in 1..MaxLimit : DispatchDueNotifications(limit)

SpecLive ==
    /\ InitSeq
    /\ [][NextLive]_vars
    /\ WF_vars(\E limit \in 1..MaxLimit : DispatchDueNotifications(limit))

\* ------------------------------------------------- PATCH /admin/events/:id
\* UPDATE events SET ... visibility = $7 WHERE id = $1, with a body that
\* names a visibility only (the other columns keep their values).
PatchEventRows(rows, eventId, visibility) ==
    { IF e.id = eventId THEN [e EXCEPT !.visibility = visibility] ELSE e : e \in rows }

\* The handler of PATCH /events/:id, run to its end: 404 for an id with no
\* event, else the UPDATE and planNotificationsForEvent(eventId).
patchEvent(db, eventId, visibility, clock) ==
    IF \A e \in db.events : e.id # eventId THEN db
    ELSE planNotificationsForEvent(
             [db EXCEPT !.events = PatchEventRows(@, eventId, visibility)],
             eventId, clock)

\* A call of PATCH /events/:id with nothing running beside it.
PatchEvent(eventId, visibility) ==
    /\ WriteDB(patchEvent(DB, eventId, visibility, now))
    /\ UNCHANGED <<now, disp, plan, fetch, worker>>

\* The administrator changes the visibility of events while users save their
\* games, the dispatcher runs and the clock moves.
NextAdmin ==
    \/ Tick
    \/ \E eventId \in PlanEventIds, visibility \in Visibilities :
          PatchEvent(eventId, visibility)
    \/ \E userId \in UserIds, enabled \in BOOLEAN : SaveGame(userId, 1, enabled)
    \/ \E limit \in 1..MaxLimit : DispatchDueNotifications(limit)

SpecAdmin == InitSeq /\ [][NextAdmin]_vars

\* ------------------------------------ the /me handlers that end in a rebuild
\* DELETE /me/games/:regionId: the DELETE of the user_games row, then the
\* rebuild (also when no row was there).
removeGame(db, userId, regionId, clock) ==
    rebuildSchedulesForUser(
        [db EXCEPT !.user_games =
            { g \in @ : ~(g.user_id = userId /\ g.region_id = regionId) }],
        userId, clock)

RemoveGame(userId, regionId) ==
    /\ WriteDB(removeGame(DB, userId, regionId, now))
    /\ UNCHANGED <<now, disp, plan, fetch, worker>>

\* UPDATE notification_rules ... WHERE id = $1 AND user_id = $2 with a body
\* that names enabled only: the merged row keeps its other columns.
PatchRuleRows(rules, userId, ruleId, enabled) ==
    { IF r.id = ruleId /\ r.user_id = userId THEN [r EXCEPT !.enabled = enabled] ELSE r :
        r \in rules }

\* PATCH /me/notification-rules/:id: 404 for a rule that is not the user's,
\* else the UPDATE and the rebuild.
patchRule(db, userId, ruleId, enabled, clock) ==
    IF \A r \in db.notification_rules : ~(r.id = ruleId /\ r.user_id = userId) THEN db
    ELSE rebuildSchedulesForUser(
             [db EXCEPT !.notification_rules = PatchRuleRows(@, userId, ruleId, enabled)],
             userId, clock)

PatchRule(userId, ruleId, enabled) ==
    /\ WriteDB(patchRule(DB, userId, ruleId, enabled, now))
    /\ UNCHANGED <<now, disp, plan, fetch, worker>>

\* DELETE /me/notification-rules/:id: the DELETE, then the rebuild (also
\* when no row was deleted).
deleteRule(db, userId, ruleId, clock) ==
    rebuildSchedulesForUser(
        [db EXCEPT !.notification_rules =
            { r \in @ : ~(r.id = ruleId /\ r.user_id = userId) }],
        userId, clock)

DeleteRule(userId, ruleId) ==
    /\ WriteDB(deleteRule(DB, userId, ruleId, now))
    /\ UNCHANGED <<now, disp, plan, fetch, worker>>

\* The rules of the rebuild runs: for user 1 an EMAIL rule that is delivered
\* and a WEBPUSH rule that fails, for user 2 a WEBPUSH rule that is
\* delivered and a disabled rule.
RebuildSeedRuleIds == {1, 4, 6, 7}
\* The ids the schedule sequence hands out in the rebuild runs.
MaxRebuildScheduleId == 6
IdsLeft == nextScheduleId <= MaxRebuildScheduleId + 1

\* The limit the worker passes to dispatch-due ("?limit=200").
WorkerDispatchLimit == 200
\* The events the administrator hides and publishes.
RebuildEventIds == {1, 3}

\* Event 3 ended one day before minute 10, to the minute.
RebuildSeedEvents ==
    SeedEvents \cup
    { Event(3, 1, "PICKUP", <<"ended">>, Some(5 - DayMinutes), Some(10 - DayMinutes),
            Some(9), "PUBLIC", 100) }

InitRebuild ==
    /\ now = 10
    /\ users = SeedUsers
    /\ push_subscriptions = SeedPushSubscriptions
    /\ user_games = SeedUserGames
    /\ notification_rules = { r \in SeedRules : r.id \in RebuildSeedRuleIds }
    /\ events = RebuildSeedEvents
    /\ sources = SeedSources
    /\ raw_notices = {}
    /\ event_raw_links = {}
    /\ ingest_runs = EmptyBag
    /\ nextEventId = Cardinality(RebuildSeedEvents) + 1
    /\ nextRawNoticeId = 1
    /\ notification_schedules = {}
    /\ nextScheduleId = 1
    /\ notification_deliveries = EmptyBag
    /\ disp = [d \in Dispatchers |-> IdleDispatch]
    /\ plan = [p \in Planners |-> IdlePlan]
    /\ fetch = [f \in Fetchers |-> IdleFetch]
    /\ worker = [t \in WorkerTicks |-> IdleTick]

\* User 2 switches region 1 and the disabled rule 6, user 1 leaves region 1
\* and deletes rule 1 (a request for another user's rule changes nothing),
\* the administrator hides and publishes events, the dispatcher runs and the
\* clock moves; one handler at a time.
NextRebuild ==
    \/ Tick
    \/ \E userId \in UserIds : RebuildSchedulesForUser(userId) /\ IdsLeft'
    \/ \E enabled \in BOOLEAN : SaveGame(2, 1, enabled) /\ IdsLeft'
    \/ RemoveGame(1, 1) /\ IdsLeft'
    \/ \E userId \in UserIds, enabled \in BOOLEAN :
          PatchRule(userId, 6, enabled) /\ IdsLeft'
    \/ \E userId \in UserIds : DeleteRule(userId, 1) /\ IdsLeft'
    \/ \E eventId \in RebuildEventIds, visibility \in {"PUBLIC", "HIDDEN"} :
          PatchEvent(eventId, visibility) /\ IdsLeft'
    \/ DispatchDueNotifications(WorkerDispatchLimit)

SpecRebuild == InitRebuild /\ [][NextRebuild]_vars

\* ------------------------------------- one rule of every trigger and offset
\* The rule of user 1: any trigger, with no offset, offset 0 or offset 3.
ComputeOffsets == {NULL, Some(0), Some(3)}
ComputeRules ==
    { Rule(1, 1, "GLOBAL", NULL, "PICKUP", trigger, offset, "EMAIL", TRUE) :
        trigger \in Triggers, offset \in ComputeOffsets }
\* The rule of user 2: relative to the start, or to the publication.
ComputeRulesOther ==
    { Rule(2, 2, "GLOBAL", NULL, "PICKUP", trigger, NULL, "WEBPUSH", TRUE) :
        trigger \in {"BEFORE_START", "ON_PUBLISH"} }
\* The event: published at minute 9, with or without a start and an end.
ComputeEvents ==
    { Event(1, 1, "PICKUP", <<"pickup">>, startAt, endAt, Some(9), "PUBLIC", 100) :
        startAt \in {NULL, Some(12)}, endAt \in {NULL, Some(16)} }

InitCompute ==
    /\ now = 10
    /\ users = SeedUsers
    /\ push_subscriptions = SeedPushSubscriptions
    /\ user_games = SeedUserGames
    /\ \E rule \in ComputeRules, other \in ComputeRulesOther :
          notification_rules = {rule, other}
    /\ \E event \in ComputeEvents : events = {event}
    /\ InitIngest
    /\ notification_schedules = {}
    /\ nextScheduleId = 1
    /\ notification_deliveries = EmptyBag
    /\ disp = [d \in Dispatchers |-> IdleDispatch]
    /\ plan = [p \in Planners |-> IdlePlan]
    /\ fetch = [f \in Fetchers |-> IdleFetch]
    /\ worker = [t \in WorkerTicks |-> IdleTick]

\* The event is planned and the users' schedules are rebuilt, one call at a
\* time, while the clock moves.
NextCompute ==
    \/ Tick
    \/ PlanNotificationsForEvent(1)
    \/ \E userId \in UserIds : RebuildSchedulesForUser(userId)

SpecCompute == InitCompute /\ [][NextCompute]_vars

\* ------------------------------------------ services/ingest.ts, handlers
\* The statements of one candidate at which a failure is injected: the first
\* statement of upsertRawNotice, or a statement of upsertEventFromRaw (the
\* event upsert, the link insert, the status update, the re-plan).  The
\* statements before the failing one stay written: no transaction spans them.
FailPoints == {"none", "raw", "event", "link", "status", "plan"}

\* The key a raw notice row has: (source_id, url).
RawNoticeOf(db, sourceId, url) ==
    { r \in db.raw_notices : r.source_id = sourceId /\ r.url = url }

\* The hash upsertRawNotice computes for a candidate (lines 437-438).
CandidateHash(candidate) ==
    sha256(normalizeText(candidate.title \o <<"\n">> \o candidate.contentText))

\* An upsert with no comparison of hashes: every fetch rewrites the row.
upsertRawNoticeAlways(db, sourceId, candidate, clock) ==
    LET existing == RawNoticeOf(db, sourceId, candidate.url)
        id == IF existing = {} THEN db.nextRawNoticeId
              ELSE (CHOOSE r \in existing : TRUE).id
        row == [id |-> id, source_id |-> sourceId, url |-> candidate.url,
                title |-> candidate.title, published_at |-> candidate.publishedAt,
                fetched_at |-> clock, content_text |-> candidate.contentText,
                content_hash |-> Some(CandidateHash(candidate)),
                raw_payload |-> candidate.rawPayload, status |-> "NEW"]
    IN [db |-> [db EXCEPT !.raw_notices = (@ \ existing) \cup {row},
                          !.nextRawNoticeId = IF existing = {} THEN @ + 1 ELSE @],
        rawNoticeId |-> id,
        changed |-> TRUE]

\* upsertRawNotice: the new database, the id of the row, and `changed`.
upsertRawNotice(db, sourceId, candidate, clock) ==
    LET contentHash == CandidateHash(candidate)
        existing == RawNoticeOf(db, sourceId, candidate.url)
    IN IF existing # {} /\ \A r \in existing : r.content_hash = Some(contentHash)
       THEN [db |-> [db EXCEPT !.raw_notices = (@ \ existing) \cup
                       { [r EXCEPT !.fetched_at = clock,
                                   !.title = candidate.title,
                                   !.published_at = IF IsNull(candidate.publishedAt)
                                                    THEN @ ELSE candidate.publishedAt] :
                           r \in existing }],
             rawNoticeId |-> (CHOOSE r \in existing : TRUE).id,
             changed |-> FALSE]
       ELSE LET id == IF existing = {} THEN db.nextRawNoticeId
                      ELSE (CHOOSE r \in existing : TRUE).id
                row == [id |-> id, source_id |-> sourceId, url |-> candidate.url,
                        title |-> candidate.title, published_at |-> candidate.publishedAt,
                        fetched_at |-> clock, content_text |-> candidate.contentText,
                        content_hash |-> Some(contentHash),
                        raw_payload |-> candidate.rawPayload, status |-> "NEW"]
            IN [db |-> [db EXCEPT !.raw_notices = (@ \ existing) \cup {row},
                                  !.nextRawNoticeId = IF existing = {} THEN @ + 1 ELSE @],
                rawNoticeId |-> id,
                changed |-> TRUE]

\* An upsert with no ON CONFLICT clause and no unique key: a plain INSERT.
UpsertEventInsert(rows, id, regionId, draft, url, key, clock) ==
    rows \cup { [id |-> id, region_id |-> regionId, type |-> draft.type,
                 title |-> draft.title, summary |-> draft.summary,
                 start_at_utc |-> draft.startAtUtc, end_at_utc |-> draft.endAtUtc,
                 source_url |-> url, canonical_event_key |-> key,
                 confidence |-> Numeric(draft.confidence), visibility |-> draft.visibility,
                 created_at |-> Some(clock)] }

\* An upsert that keeps the row it meets: ON CONFLICT DO NOTHING.
UpsertEventFirstWins(rows, id, regionId, draft, url, key, clock) ==
    IF \E e \in rows : e.canonical_event_key = key THEN rows
    ELSE UpsertEventInsert(rows, id, regionId, draft, url, key, clock)

\* INSERT INTO events ... ON CONFLICT (canonical_event_key) DO UPDATE, lines
\* 533-567: the new table.
UpsertEvent(rows, id, regionId, draft, url, key, clock) ==
    LET hit == { e \in rows : e.canonical_event_key = key }
    IN IF hit = {}
       THEN rows \cup { [id |-> id, region_id |-> regionId, type |-> draft.type,
                         title |-> draft.title, summary |-> draft.summary,
                         start_at_utc |-> draft.startAtUtc, end_at_utc |-> draft.endAtUtc,
                         source_url |-> url, canonical_event_key |-> key,
                         confidence |-> Numeric(draft.confidence), visibility |-> draft.visibility,
                         created_at |-> Some(clock)] }
       ELSE (rows \ hit) \cup
            { [e EXCEPT !.type = draft.type, !.title = draft.title,
                        !.summary = draft.summary, !.start_at_utc = draft.startAtUtc,
                        !.end_at_utc = draft.endAtUtc, !.source_url = url,
                        !.confidence = Numeric(draft.confidence),
                        !.visibility = draft.visibility] : e \in hit }

\* The draft and the key upsertEventFromRaw computes, lines 516-530.
RawNoticeDraft(source, rawNotice) ==
    parseRawNoticeToEventDraft(rawNotice.title, rawNotice.content_text,
                               RegionTimezone(source.region_id))

DraftKey(source, draft) ==
    toCanonicalEventKey(source.region_id, draft.type, draft.title,
                        draft.startAtUtc, draft.endAtUtc)

\* RETURNING id of the event upsert, line 566.
UpsertedEventId(rows, key) == (CHOOSE e \in rows : e.canonical_event_key = key).id

\* The link and the status with no planning after them.
LinkAndPlanUnplanned(db, rawNotice, eventId, point, clock) ==
    LET db2 == [db EXCEPT !.event_raw_links =
                             @ \cup {[event_id |-> eventId, raw_notice_id |-> rawNotice.id]}]
        db3 == [db2 EXCEPT !.raw_notices =
                              { IF r.id = rawNotice.id THEN [r EXCEPT !.status = "PARSED"]
                                ELSE r : r \in @ }]
    IN CASE point = "link" -> [db |-> db, ok |-> FALSE, eventId |-> eventId]
         [] point = "status" -> [db |-> db2, ok |-> FALSE, eventId |-> eventId]
         [] point = "plan" -> [db |-> db3, ok |-> FALSE, eventId |-> eventId]
         [] OTHER -> [db |-> db3, ok |-> TRUE, eventId |-> eventId]

\* The statements of upsertEventFromRaw after the event upsert, lines 569-592,
\* up to the statement that fails: the link, the status, the planning.
LinkAndPlan(db, rawNotice, eventId, point, clock) ==
    LET db2 == [db EXCEPT !.event_raw_links =
                             @ \cup {[event_id |-> eventId, raw_notice_id |-> rawNotice.id]}]
        db3 == [db2 EXCEPT !.raw_notices =
                              { IF r.id = rawNotice.id THEN [r EXCEPT !.status = "PARSED"]
                                ELSE r : r \in @ }]
    IN CASE point = "link" -> [db |-> db, ok |-> FALSE, eventId |-> eventId]
         [] point = "status" -> [db |-> db2, ok |-> FALSE, eventId |-> eventId]
         [] point = "plan" -> [db |-> db3, ok |-> FALSE, eventId |-> eventId]
         [] OTHER -> [db |-> planNotificationsForEvent(db3, eventId, clock),
                      ok |-> TRUE, eventId |-> eventId]

\* The event upsert of upsertEventFromRaw, lines 533-567, and what follows it.
StoreEvent(db, rawNotice, rows, eventId, point, clock) ==
    LinkAndPlan([db EXCEPT !.events = rows,
                           !.nextEventId = IF eventId = @ THEN @ + 1 ELSE @],
                rawNotice, eventId, point, clock)

StoreDraft(db, source, rawNotice, rows, key, point, clock) ==
    StoreEvent(db, rawNotice, rows, UpsertedEventId(rows, key), point, clock)

StoreKeyed(db, source, rawNotice, draft, key, point, clock) ==
    StoreDraft(db, source, rawNotice,
               UpsertEvent(db.events, db.nextEventId, source.region_id, draft,
                           rawNotice.url, key, clock),
               key, point, clock)

StoreParsed(db, source, rawNotice, draft, point, clock) ==
    StoreKeyed(db, source, rawNotice, draft, DraftKey(source, draft), point, clock)

\* upsertEventFromRaw: the database it leaves, whether it returned, and the
\* id of the event (0 when the event upsert failed).
upsertEventFromRaw(db, source, rawNotice, point, clock) ==
    IF point = "event" THEN [db |-> db, ok |-> FALSE, eventId |-> 0]
    ELSE StoreParsed(db, source, rawNotice, RawNoticeDraft(source, rawNotice), point, clock)

IngestRun(sourceId, mode, status, fetchedCount, parsedCount, errorCount) ==
    [source_id |-> sourceId, mode |-> mode, status |-> status,
     fetched_count |-> fetchedCount, parsed_count |-> parsedCount,
     error_count |-> errorCount]

logIngestRun(db, run) == [db EXCEPT !.ingest_runs = @ (+) SetToBag({run})]

\* An error bookkeeping that stamps the attempt as the last success too.
SourceErrorStamped(db, sourceId, clock) ==
    [db EXCEPT !.sources =
        { IF x.id = sourceId
          THEN [x EXCEPT !.last_error_at = Some(clock), !.last_error_message = Some("error"),
                         !.last_success_at = Some(clock)]
          ELSE x : x \in @ }]

\* UPDATE sources SET last_error_at = NOW(), last_error_message = $2
SourceError(db, sourceId, clock) ==
    [db EXCEPT !.sources =
        { IF x.id = sourceId
          THEN [x EXCEPT !.last_error_at = Some(clock), !.last_error_message = Some("error")]
          ELSE x : x \in @ }]

\* A catch that marks the notice and the source and leaves the count alone.
ItemFailedUncounted(st, source, candidate, clock) ==
    LET marked == [st.db EXCEPT !.raw_notices =
                      { IF r.source_id = source.id /\ r.url = candidate.url
                        THEN [r EXCEPT !.status = "ERROR"] ELSE r : r \in @ }]
    IN [st EXCEPT !.db = SourceError(marked, source.id, clock)]

\* The catch of runSourceFetch's loop, lines 672-690.
ItemFailed(st, source, candidate, clock) ==
    LET marked == [st.db EXCEPT !.raw_notices =
                      { IF r.source_id = source.id /\ r.url = candidate.url
                        THEN [r EXCEPT !.status = "ERROR"] ELSE r : r \in @ }]
    IN [st EXCEPT !.db = SourceError(marked, source.id, clock), !.errorCount = @ + 1]

\* The body of runSourceFetch's loop for one candidate, lines 657-690.
ItemParsed(st, source, candidate, parsed, clock) ==
    IF parsed.ok
    THEN [st EXCEPT !.db = parsed.db, !.parsedCount = @ + 1]
    ELSE ItemFailed([st EXCEPT !.db = parsed.db], source, candidate, clock)

\* getRawNotice, lines 504-513.
getRawNotice(db, rawNoticeId) == CHOOSE r \in db.raw_notices : r.id = rawNoticeId

\* A loop body that parses the notice whether it changed or not.
ItemUpsertedNoSkip(st, source, candidate, upsertRaw, point, clock) ==
    ItemParsed(st, source, candidate,
               upsertEventFromRaw(upsertRaw.db, source,
                                  getRawNotice(upsertRaw.db, upsertRaw.rawNoticeId),
                                  point, clock),
               clock)

ItemUpserted(st, source, candidate, upsertRaw, point, clock) ==
    IF ~upsertRaw.changed THEN [st EXCEPT !.db = upsertRaw.db]
    ELSE ItemParsed(st, source, candidate,
                    upsertEventFromRaw(upsertRaw.db, source,
                                       getRawNotice(upsertRaw.db, upsertRaw.rawNoticeId),
                                       point, clock),
                    clock)

FetchItem(st, source, candidate, point, clock) ==
    IF point = "raw" THEN ItemFailed(st, source, candidate, clock)
    ELSE ItemUpserted(st, source, candidate,
                      upsertRawNotice(st.db, source.id, candidate, clock), point, clock)

\* The loop of runSourceFetch after its first n candidates; the failure, if
\* any, is injected at `fail.point` of candidate number `fail.index`.
RECURSIVE FetchItems(_, _, _, _, _, _)
FetchItems(db, source, candidates, n, fail, clock) ==
    IF n = 0 THEN [db |-> db, parsedCount |-> 0, errorCount |-> 0]
    ELSE FetchItem(FetchItems(db, source, candidates, n - 1, fail, clock), source,
                   candidates[n], IF fail.index = n THEN fail.point ELSE "none", clock)

\* The end of runSourceFetch after its loop, lines 692-717.
FetchDone(st, sourceId, mode, fetchedCount, clock) ==
    [db |-> logIngestRun(
              [st.db EXCEPT !.sources =
                  { IF x.id = sourceId
                    THEN [x EXCEPT !.last_success_at = Some(clock),
                                   !.last_error_message = NULL]
                    ELSE x : x \in @ }],
              IngestRun(sourceId, mode,
                        IF st.errorCount > 0 THEN "PARTIAL" ELSE "SUCCESS",
                        fetchedCount, st.parsedCount, st.errorCount)),
     raised |-> FALSE]

\* runSourceFetch run to its end.  `fetched` is what fetchRawCandidates does:
\* it throws, or it gives a list of candidates.
runSourceFetch(db, sourceId, mode, fetched, fail, clock) ==
    LET found == { x \in db.sources : x.id = sourceId }
        source == CHOOSE x \in found : TRUE
    IN IF found = {} THEN [db |-> db, raised |-> TRUE]
       ELSE IF ~source.enabled THEN [db |-> db, raised |-> FALSE]
       ELSE IF source.type = "API" \/ fetched.threw
       THEN [db |-> logIngestRun(SourceError(db, sourceId, clock),
                                 IngestRun(sourceId, mode, "FAILED", 0, 0, 1)),
             raised |-> TRUE]
       ELSE FetchDone(FetchItems(db, source, fetched.items, Len(fetched.items), fail, clock),
                      sourceId, mode, Len(fetched.items), clock)

\* The end of reparseRawNotice, lines 808-822.
Reparsed(result, sourceId) ==
    IF ~result.ok
    THEN [db |-> result.db, raised |-> TRUE, eventId |-> result.eventId]
    ELSE [db |-> logIngestRun(result.db,
                    IngestRun(sourceId, "REPARSE", "SUCCESS", 1, 1, 0)),
          raised |-> FALSE, eventId |-> result.eventId]

SourceOf(db, rawNotice) == CHOOSE x \in db.sources : x.id = rawNotice.source_id

ReparseRow(db, rawNotice, source, point, clock) ==
    Reparsed(upsertEventFromRaw(db, source, rawNotice, point, clock), source.id)

\* reparseRawNotice run to its end.
reparseRawNotice(db, rawNoticeId, point, clock) ==
    IF \A r \in db.raw_notices : r.id # rawNoticeId
    THEN [db |-> db, raised |-> TRUE, eventId |-> 0]
    ELSE ReparseRow(db, getRawNotice(db, rawNoticeId),
                    SourceOf(db, getRawNotice(db, rawNoticeId)), point, clock)

\* The notices a feed may carry.
Candidate(url, title, contentText, publishedAt) ==
    [url |-> url, title |-> title, contentText |-> contentText,
     publishedAt |-> publishedAt, rawPayload |-> <<url, title>>]

\* A pickup notice with a full date range; the same text with the word
\* "notice" moved from the title to the body and a publication date (the
\* hash is the same); the notice with its end date dropped; a notice under
\* another url with a Hangul keyword and no date; and the first notice under
\* that url with a doubled blank in its title.
Candidates ==
    { Candidate("a", <<"pickup", " ", "notice">>,
                <<"2026/01/01 09:10", "~", "2026/01/01 09:14">>, NULL),
      Candidate("a", <<"pickup">>,
                <<"notice", " ", "2026/01/01 09:10", "~", "2026/01/01 09:14">>, Some(9)),
      Candidate("a", <<"pickup", " ", "notice">>, <<"2026/01/01 09:10">>, NULL),
      Candidate("b", <<"#pickup", " ", "notice">>, <<"notice">>, NULL),
      Candidate("b", <<"pickup", " ", " ", "notice">>,
                <<"2026/01/01 09:10", "~", "2026/01/01 09:14">>, NULL) }

\* What fetchRawCandidates may give: a failure, or up to MaxFeedLen notices.
Feeds ==
    {[threw |-> TRUE, items |-> <<>>]} \cup
    { [threw |-> FALSE, items |-> items] :
        items \in UNION { [1..n -> Candidates] : n \in 0..MaxFeedLen } }

Failures(fetched) ==
    {[index |-> 0, point |-> "none"]} \cup
    { [index |-> i, point |-> point] :
        i \in 1..Min(MaxFailIndex, Len(fetched.items)),
        point \in FailPoints \ {"none"} }

\* The log of ingest runs is bounded: the runs call while it has room.
LogRoom == BagCardinality(ingest_runs) < MaxIngestRuns

\* A call of runSourceFetch with nothing running beside it.
RunSourceFetch(sourceId, mode, fetched, fail) ==
    /\ WriteDB(runSourceFetch(DB, sourceId, mode, fetched, fail, now).db)
    /\ UNCHANGED <<now, disp, plan, fetch, worker>>

\* A call of reparseRawNotice with nothing running beside it.
ReparseRawNotice(rawNoticeId, point) ==
    /\ WriteDB(reparseRawNotice(DB, rawNoticeId, point, now).db)
    /\ UNCHANGED <<now, disp, plan, fetch, worker>>

\* The ingest runs start from the seeded catalog under the rules of the
\* interleaved runs, with nothing fetched and nothing planned.
InitIngestRuns ==
    /\ now = 10
    /\ users = SeedUsers
    /\ push_subscriptions = SeedPushSubscriptions
    /\ user_games = SeedUserGames
    /\ notification_rules = { r \in SeedRules : r.id \in InterleavedRuleIds }
    /\ events = SeedEvents
    /\ InitIngest
    /\ notification_schedules = {}
    /\ nextScheduleId = 1
    /\ notification_deliveries = EmptyBag
    /\ disp = [d \in Dispatchers |-> IdleDispatch]
    /\ plan = [p \in Planners |-> IdlePlan]
    /\ fetch = [f \in Fetchers |-> IdleFetch]
    /\ worker = [t \in WorkerTicks |-> IdleTick]

RawNoticeIds == {1, 2, 3}

NextIngest ==
    \/ Tick
    \/ /\ LogRoom
       /\ \E sourceId \in FetchSourceIds, fetched \in Feeds :
             \E fail \in Failures(fetched) :
                RunSourceFetch(sourceId, "MANUAL", fetched, fail)
    \/ /\ LogRoom
       /\ \E rawNoticeId \in RawNoticeIds, point \in FailPoints \ {"raw"} :
             ReparseRawNotice(rawNoticeId, point)

SpecIngest == InitIngestRuns /\ [][NextIngest]_vars

\* ------------------------------------------- notices that meet in one event
\* A body longer than 20 characters with no keyword and no date.
LongBody == <<"notice", " ", "notice", " ", "notice", " ", "notice">>
\* Five words and their hyphens fill the 60 characters slugify keeps.
LongTitle == <<"maintenance", " ", "maintenance", " ", "maintenance", " ",
               "maintenance", " ", "maintenance", " ">>

\* The notices of the feed of source 1: an undated pickup notice with a long
\* body; the same title with a capital and a short body; the notice of the
\* seeded event 1; under the urls b and c two undated notices with Hangul
\* titles, and two notices whose titles differ after the 60th character of
\* their slug.
MergeCandidates ==
    { Candidate("a", <<"pickup">>, LongBody, NULL),
      Candidate("a", <<"Pickup">>, <<"notice">>, NULL),
      Candidate("a", <<"pickup">>,
                <<"2026/01/01 09:10", "~", "2026/01/01 09:14">>, NULL),
      Candidate("b", <<"#pickup">>, LongBody, NULL),
      Candidate("c", <<"#pickup", " ", "#pickup">>, LongBody, NULL),
      Candidate("b", LongTitle \o <<"notice">>, LongBody, NULL),
      Candidate("c", LongTitle \o <<"update">>, LongBody, NULL) }

\* The events the administrator reviews: the seeded event 1 and the first
\* event that ingestion creates.
MergeEventIds == {1, 3}
MergeRawNoticeIds == {1, 2}

\* Source 1 is fetched, one notice per run, stored notices are reparsed, the
\* administrator takes events out of the public feed and the clock moves;
\* one handler at a time.
NextMerge ==
    \/ Tick
    \/ /\ LogRoom
       /\ \E candidate \in MergeCandidates :
             RunSourceFetch(1, "MANUAL", [threw |-> FALSE, items |-> <<candidate>>],
                            [index |-> 0, point |-> "none"])
    \/ /\ LogRoom
       /\ \E rawNoticeId \in MergeRawNoticeIds : ReparseRawNotice(rawNoticeId, "none")
    \/ \E eventId \in MergeEventIds, visibility \in {"HIDDEN", "NEED_REVIEW"} :
          PatchEvent(eventId, visibility)

SpecMerge == InitIngestRuns /\ [][NextMerge]_vars

\* ------------------------------- two runSourceFetch calls on one source
\* Each statement a call awaits is one step; the steps of the two calls
\* interleave.  No statement of the loop raises: every INSERT names the unique
\* key of its table in ON CONFLICT, and the rows it refers to are not deleted.
FetchSourceId == 1

\* What the adapter returns to both calls: the notice of the seeded event 1
\* and an undated pickup notice.
FetchFeed ==
    << Candidate("a", <<"pickup">>, <<"2026/01/01 09:10", "~", "2026/01/01 09:14">>, NULL),
       Candidate("b", <<"pickup">>, LongBody, NULL) >>

\* The first call is a scheduled one; the second is scheduled or manual.
FetchModes(f) == IF f = 1 THEN {"SCHEDULED"} ELSE {"SCHEDULED", "MANUAL"}

FetchCandidate(l) == FetchFeed[l.i]

\* runSourceFetch, lines 632-654: getSourceById and the adapter's fetch.
FetchBegin(f, mode) ==
    /\ fetch[f].pc = "idle"
    /\ \E source \in { x \in sources : x.id = FetchSourceId /\ x.enabled } :
          fetch' = [fetch EXCEPT ![f] =
              [IdleFetch EXCEPT !.pc = "select", !.mode = mode, !.source = source, !.i = 1]]
    /\ UNCHANGED <<now, dbVars, schedVars, disp, plan, worker>>

\* The loop goes on with the next candidate, or ends (lines 656, 692).
FetchNextItem(l) ==
    IF l.i < Len(FetchFeed)
    THEN [l EXCEPT !.pc = "select", !.i = @ + 1, !.existing = {}, !.rawNoticeId = 0,
                   !.rawNotice = [id |-> 0], !.eventId = 0]
    ELSE [l EXCEPT !.pc = "source", !.existing = {}, !.rawNoticeId = 0,
                   !.rawNotice = [id |-> 0], !.eventId = 0]

\* upsertRawNotice, lines 440-445: SELECT id, content_hash.
FetchSelect(f) ==
    /\ fetch[f].pc = "select"
    /\ fetch' = [fetch EXCEPT ![f] =
          [@ EXCEPT !.pc = "raw",
                    !.existing = { [id |-> r.id, content_hash |-> r.content_hash] :
                                     r \in RawNoticeOf(DB, fetch[f].source.id,
                                                       FetchCandidate(fetch[f]).url) }]]
    /\ UNCHANGED <<now, dbVars, schedVars, disp, plan, worker>>

\* UPDATE raw_notices SET fetched_at, title, published_at, lines 448-455.
RawNoticeTouch(rows, sourceId, candidate, clock) ==
    { IF r.source_id = sourceId /\ r.url = candidate.url
      THEN [r EXCEPT !.fetched_at = clock, !.title = candidate.title,
                     !.published_at = IF IsNull(candidate.publishedAt)
                                      THEN @ ELSE candidate.publishedAt]
      ELSE r : r \in rows }

\* The row the INSERT of lines 463-486 writes under the id `id`.
RawNoticeRow(id, sourceId, candidate, clock) ==
    [id |-> id, source_id |-> sourceId, url |-> candidate.url,
     title |-> candidate.title, published_at |-> candidate.publishedAt,
     fetched_at |-> clock, content_text |-> candidate.contentText,
     content_hash |-> Some(CandidateHash(candidate)),
     raw_payload |-> candidate.rawPayload, status |-> "NEW"]

\* An INSERT with no ON CONFLICT clause on a table with no unique key.
RawNoticeInsertPlain(rows, id, sourceId, candidate, clock) ==
    rows \cup { RawNoticeRow(id, sourceId, candidate, clock) }

\* INSERT INTO raw_notices ... ON CONFLICT (source_id, url) DO UPDATE, lines
\* 463-486, on the table as it stands when the statement runs.
RawNoticeInsert(rows, id, sourceId, candidate, clock) ==
    LET hit == { r \in rows : r.source_id = sourceId /\ r.url = candidate.url }
    IN IF hit = {} THEN rows \cup { RawNoticeRow(id, sourceId, candidate, clock) }
       ELSE (rows \ hit) \cup { RawNoticeRow(r.id, sourceId, candidate, clock) : r \in hit }

\* RETURNING id, line 486.
RawNoticeInsertedId(rows, id, sourceId, candidate) ==
    IF \E r \in rows : r.id = id THEN id
    ELSE (CHOOSE r \in rows : r.source_id = sourceId /\ r.url = candidate.url).id

\* upsertRawNotice, lines 447-501: the UPDATE of an unchanged notice (the
\* loop then continues, line 660), or the INSERT.
FetchRaw(f) ==
    /\ fetch[f].pc = "raw"
    /\ LET l == fetch[f]
           candidate == FetchCandidate(l)
           same == /\ l.existing # {}
                   /\ \A r \in l.existing : r.content_hash = Some(CandidateHash(candidate))
           rows == RawNoticeInsert(raw_notices, nextRawNoticeId, l.source.id, candidate, now)
           id == RawNoticeInsertedId(rows, nextRawNoticeId, l.source.id, candidate)
       IN IF same
          THEN /\ raw_notices' = RawNoticeTouch(raw_notices, l.source.id, candidate, now)
               /\ nextRawNoticeId' = nextRawNoticeId
               /\ fetch' = [fetch EXCEPT ![f] = FetchNextItem(l)]
          ELSE /\ raw_notices' = rows
               /\ nextRawNoticeId' = IF id = nextRawNoticeId THEN id + 1 ELSE nextRawNoticeId
               /\ fetch' = [fetch EXCEPT ![f] = [l EXCEPT !.pc = "getraw", !.rawNoticeId = id]]
    /\ UNCHANGED <<now, users, push_subscriptions, user_games, notification_rules, events,
                   sources, event_raw_links, ingest_runs, nextEventId, schedVars,
                   disp, plan, worker>>

\* getRawNotice, lines 662-665.
FetchGetRaw(f) ==
    /\ fetch[f].pc = "getraw"
    /\ LET found == { r \in raw_notices : r.id = fetch[f].rawNoticeId }
       IN fetch' = [fetch EXCEPT ![f] =
             IF found = {} THEN FetchNextItem(@)
             ELSE [@ EXCEPT !.pc = "event", !.rawNotice = CHOOSE r \in found : TRUE]]
    /\ UNCHANGED <<now, dbVars, schedVars, disp, plan, worker>>

\* upsertEventFromRaw, lines 516-567: the draft of the notice as it was read,
\* and the event upsert.
FetchEvent(f) ==
    /\ fetch[f].pc = "event"
    /\ LET l == fetch[f]
           draft == RawNoticeDraft(l.source, l.rawNotice)
           key == DraftKey(l.source, draft)
           rows == UpsertEvent(events, nextEventId, l.source.region_id, draft,
                               l.rawNotice.url, key, now)
           id == UpsertedEventId(rows, key)
       IN /\ events' = rows
          /\ nextEventId' = IF id = nextEventId THEN id + 1 ELSE nextEventId
          /\ fetch' = [fetch EXCEPT ![f] = [l EXCEPT !.pc = "link", !.eventId = id]]
    /\ UNCHANGED <<now, users, push_subscriptions, user_games, notification_rules,
                   sources, raw_notices, event_raw_links, ingest_runs, nextRawNoticeId,
                   schedVars, disp, plan, worker>>

\* INSERT INTO event_raw_links ... ON CONFLICT DO NOTHING, lines 571-576.
FetchLink(f) ==
    /\ fetch[f].pc = "link"
    /\ event_raw_links' = event_raw_links \cup
          { [event_id |-> fetch[f].eventId, raw_notice_id |-> fetch[f].rawNotice.id] }
    /\ fetch' = [fetch EXCEPT ![f] = [@ EXCEPT !.pc = "status"]]
    /\ UNCHANGED <<now, users, push_subscriptions, user_games, notification_rules, events,
                   sources, raw_notices, ingest_runs, nextEventId, nextRawNoticeId,
                   schedVars, disp, plan, worker>>

\* UPDATE raw_notices SET status = 'PARSED', lines 578-583.
FetchStatus(f) ==
    /\ fetch[f].pc = "status"
    /\ raw_notices' = { IF r.id = fetch[f].rawNotice.id THEN [r EXCEPT !.status = "PARSED"]
                        ELSE r : r \in raw_notices }
    /\ fetch' = [fetch EXCEPT ![f] = [@ EXCEPT !.pc = "plan"]]
    /\ UNCHANGED <<now, users, push_subscriptions, user_games, notification_rules, events,
                   sources, event_raw_links, ingest_runs, nextEventId, nextRawNoticeId,
                   schedVars, disp, plan, worker>>

\* Line 585 calls planNotificationsForEvent(eventId): its getEvent.  The
\* statements after it are the planning steps of the call.
FetchPlanGetEvent(f) ==
    /\ fetch[f].pc = "plan"
    /\ plan[f].pc = "idle"
    /\ plan' = [plan EXCEPT ![f] =
          IF getEvent(DB, fetch[f].eventId) = {} THEN IdlePlan
          ELSE [IdlePlan EXCEPT !.pc = "delete", !.op = "plan",
                                !.event = CHOOSE e \in getEvent(DB, fetch[f].eventId) : TRUE]]
    /\ fetch' = [fetch EXCEPT ![f] = [@ EXCEPT !.pc = "planning"]]
    /\ UNCHANGED <<now, dbVars, schedVars, disp, worker>>

\* planNotificationsForEvent has returned: lines 586-591 and 668.
FetchPlanned(f) ==
    /\ fetch[f].pc = "planning"
    /\ plan[f].pc = "idle"
    /\ fetch' = [fetch EXCEPT ![f] = FetchNextItem([@ EXCEPT !.parsedCount = @ + 1])]
    /\ UNCHANGED <<now, dbVars, schedVars, disp, plan, worker>>

\* UPDATE sources SET last_success_at = NOW(), last_error_message = NULL,
\* lines 692-698.
FetchSourceUpdate(f) ==
    /\ fetch[f].pc = "source"
    /\ sources' = { IF x.id = fetch[f].source.id
                    THEN [x EXCEPT !.last_success_at = Some(now), !.last_error_message = NULL]
                    ELSE x : x \in sources }
    /\ fetch' = [fetch EXCEPT ![f] = [@ EXCEPT !.pc = "log"]]
    /\ UNCHANGED <<now, users, push_subscriptions, user_games, notification_rules, events,
                   raw_notices, event_raw_links, ingest_runs, nextEventId, nextRawNoticeId,
                   schedVars, disp, plan, worker>>

\* logIngestRun and the return, lines 700-717.
FetchLog(f) ==
    /\ fetch[f].pc = "log"
    /\ LET l == fetch[f]
           status == IF l.errorCount > 0 THEN "PARTIAL" ELSE "SUCCESS"
       IN ingest_runs' = ingest_runs (+)
             SetToBag({ IngestRun(l.source.id, l.mode, status, Len(FetchFeed),
                                  l.parsedCount, l.errorCount) })
    /\ fetch' = [fetch EXCEPT ![f] = [@ EXCEPT !.pc = "done"]]
    /\ UNCHANGED <<now, users, push_subscriptions, user_games, notification_rules, events,
                   sources, raw_notices, event_raw_links, nextEventId, nextRawNoticeId,
                   schedVars, disp, plan, worker>>

\* Rule 1 of user 1 (ON_START, EMAIL) on the seeded catalog, nothing fetched.
InitFetch ==
    /\ now = 10
    /\ users = SeedUsers
    /\ push_subscriptions = SeedPushSubscriptions
    /\ user_games = SeedUserGames
    /\ notification_rules = { SeedRule(1) }
    /\ events = SeedEvents
    /\ InitIngest
    /\ notification_schedules = {}
    /\ nextScheduleId = 1
    /\ notification_deliveries = EmptyBag
    /\ disp = [d \in Dispatchers |-> IdleDispatch]
    /\ plan = [f \in Fetchers |-> IdlePlan]
    /\ fetch = [f \in Fetchers |-> IdleFetch]
    /\ worker = [t \in WorkerTicks |-> IdleTick]

NextFetch ==
    \/ Tick
    \/ \E f \in Fetchers, mode \in {"SCHEDULED", "MANUAL"} :
          mode \in FetchModes(f) /\ FetchBegin(f, mode)
    \/ \E f \in Fetchers : FetchSelect(f)
    \/ \E f \in Fetchers : FetchRaw(f)
    \/ \E f \in Fetchers : FetchGetRaw(f)
    \/ \E f \in Fetchers : FetchEvent(f)
    \/ \E f \in Fetchers : FetchLink(f)
    \/ \E f \in Fetchers : FetchStatus(f)
    \/ \E f \in Fetchers : FetchPlanGetEvent(f)
    \/ \E f \in Fetchers : PlanDelete(f)
    \/ \E f \in Fetchers : PlanTargets(f)
    \/ \E f \in Fetchers, userId \in UserIds : PlanRules(f, userId)
    \/ \E f \in Fetchers, rule \in notification_rules : PlanUpsertRule(f, rule)
    \/ \E f \in Fetchers : FetchPlanned(f)
    \/ \E f \in Fetchers : FetchSourceUpdate(f)
    \/ \E f \in Fetchers : FetchLog(f)

SpecFetch == InitFetch /\ [][NextFetch]_vars

\* ------------------------------------------ runDueSourceFetches, the worker
MaxDueLimit == 2
MaxLoggedRuns == 3

\* A query that leaves the interval out: every enabled source.
DueSourcesAnyTime(db, clock) == { x \in db.sources : x.enabled }

\* The WHERE of the query of runDueSourceFetches, lines 749-754.
DueSources(db, clock) ==
    { x \in db.sources :
        /\ x.enabled
        /\ \/ IsNull(x.last_success_at)
           \/ Val(x.last_success_at) + x.fetch_interval_minutes <= clock }

\* ORDER BY COALESCE(last_success_at, to_timestamp(0)) ASC, line 755.
DueKey(x) == IF IsNull(x.last_success_at) THEN 0 ELSE Val(x.last_success_at)

\* The row lists the query may give under LIMIT n: n due sources in the
\* order of the key, none of them after a due source left out.  The order
\* of equal keys is the database's choice.
DueQueryRows(due, n) ==
    { rows \in [1..n -> due] :
        /\ \A i, j \in 1..n : i < j => rows[i] # rows[j] /\ DueKey(rows[i]) <= DueKey(rows[j])
        /\ \A i \in 1..n :
              \A x \in due \ { rows[j] : j \in 1..n } : DueKey(rows[i]) <= DueKey(x) }

DueSelections(db, limit, clock) ==
    DueQueryRows(DueSources(db, clock), Min(limit, Cardinality(DueSources(db, clock))))

\* The summary runDueSourceFetches pushes for a source, lines 768-783: that
\* of runSourceFetch (the numbers of the run it logged), or FAILED when it
\* raised.
DueSummary(sourceId, before, res) ==
    IF res.raised
    THEN [sourceId |-> sourceId, status |-> "FAILED", parsedCount |-> 0, errorCount |-> 1]
    ELSE LET run == CHOOSE r \in BagToSet(res.db.ingest_runs (-) before.ingest_runs) : TRUE
         IN [sourceId |-> run.source_id, status |-> run.status,
             parsedCount |-> run.parsed_count, errorCount |-> run.error_count]

DueFetched(prev, sourceId, res) ==
    [db |-> res.db,
     summaries |-> Append(prev.summaries, DueSummary(sourceId, prev.db, res))]

DueFetch(prev, sourceId, input, clock) ==
    DueFetched(prev, sourceId,
               runSourceFetch(prev.db, sourceId, "SCHEDULED", input.fetched, input.fail, clock))

\* The loop of runDueSourceFetches over the first n rows, lines 767-784.
\* `inputs` gives, for each source, what its feed does in this call.
RECURSIVE DueLoop(_, _, _, _, _)
DueLoop(db, rows, n, inputs, clock) ==
    IF n = 0 THEN [db |-> db, summaries |-> <<>>]
    ELSE DueFetch(DueLoop(db, rows, n - 1, inputs, clock), rows[n].id,
                  inputs[rows[n].id], clock)

DueResult(looped) ==
    [db |-> looped.db, processedSources |-> Len(looped.summaries),
     summaries |-> looped.summaries, raised |-> FALSE]

\* runDueSourceFetches run to its end on the rows its query gave.
runDueSourceFetches(db, rows, inputs, clock) ==
    DueResult(DueLoop(db, rows, Len(rows), inputs, clock))

\* What the feed of a source does in a scheduled call: the list fetch fails,
\* or it gives no notice, or it gives the one notice the source publishes,
\* whose parse may fail.
DueFeeds ==
    { [fetched |-> [threw |-> TRUE, items |-> <<>>],
       fail |-> [index |-> 0, point |-> "none"]],
      [fetched |-> [threw |-> FALSE, items |-> <<>>],
       fail |-> [index |-> 0, point |-> "none"]],
      [fetched |-> [threw |-> FALSE,
                    items |-> <<Candidate("a", <<"pickup", " ", "notice">>,
                                          <<"2026/01/01 09:10", "~", "2026/01/01 09:14">>,
                                          NULL)>>],
       fail |-> [index |-> 0, point |-> "none"]],
      [fetched |-> [threw |-> FALSE,
                    items |-> <<Candidate("a", <<"pickup", " ", "notice">>,
                                          <<"2026/01/01 09:10", "~", "2026/01/01 09:14">>,
                                          NULL)>>],
       fail |-> [index |-> 1, point |-> "event"]] }

\* The feeds of sources that have nothing to publish: the list fetch fails,
\* or it gives no notice.
ListFeeds == { input \in DueFeeds : input.fetched.items = <<>> }

\* The rows of ingest_runs are written and never read by the handlers: the
\* log keeps its first MaxLoggedRuns rows, so that the worker can go on.
KeepLog(db, log) ==
    [db EXCEPT !.ingest_runs = IF BagCardinality(@) <= MaxLoggedRuns THEN @ ELSE log]

\* The databases a call of runDueSourceFetches may leave: one for each row
\* list its query may give and each behaviour of the feeds.
DueOutcomes(db, limit, feeds, clock) ==
    { KeepLog(runDueSourceFetches(db, rows, inputs, clock).db, db.ingest_runs) :
        rows \in DueSelections(db, limit, clock),
        inputs \in [{ x.id : x \in SeedSources } -> feeds] }

\* A call of runDueSourceFetches with nothing running beside it.
RunDueSourceFetches(limit, feeds) ==
    /\ \E db \in DueOutcomes(DB, limit, feeds, now) : WriteDB(db)
    /\ UNCHANGED <<now, disp, plan, fetch, worker>>

\* The calls of POST /admin/ingest/run-due; the clock moves.
NextDue ==
    \/ Tick
    \/ \E limit \in 1..MaxDueLimit : RunDueSourceFetches(limit, DueFeeds)

SpecDue == InitIngestRuns /\ [][NextDue]_vars

\* The limit of the worker's calls: fewer than there are enabled sources.
WorkerLimit == 1

\* The worker calls POST /admin/ingest/run-due at every tick of its interval
\* timer (part_001 lines 27-50), always with the same limit, here over
\* sources with nothing to publish.
NextWorker ==
    \/ Tick
    \/ RunDueSourceFetches(WorkerLimit, ListFeeds)

SpecWorker ==
    /\ InitIngestRuns
    /\ [][NextWorker]_vars
    /\ WF_vars(RunDueSourceFetches(WorkerLimit, ListFeeds))

\* ------------------------------------------------ the ticks of the worker
\* POST /admin/ingest/run-due passes 10 to runDueSourceFetches.
RunDueLimit == 10

\* tick(), lines 28-31: the run-due call is sent and awaited.
TickBegunBoth(l) == [l EXCEPT !.pc = "ingest", !.ingest = "sent", !.dispatch = "sent"]

TickBegun(l) == [l EXCEPT !.pc = "ingest", !.ingest = "sent"]

\* Line 32: the run-due call returned a 2xx answer; the dispatch-due call is
\* sent and awaited.
IngestReturned(l) == [l EXCEPT !.pc = "dispatch", !.ingest = "ok", !.dispatch = "sent"]

\* postJson threw (lines 19-22, or fetch rejected): the catch of lines 37-40
\* logs the error and the tick ends.
IngestThrew(l) == [l EXCEPT !.pc = "done", !.ingest = "failed"]

\* Lines 34-36: the dispatch-due call returned; the tick logs and ends.
DispatchReturned(l) == [l EXCEPT !.pc = "done", !.dispatch = "ok"]

DispatchThrew(l) == [l EXCEPT !.pc = "done", !.dispatch = "failed"]

\* Lines 47-50: the first tick is called at once, the others by the interval
\* timer, which does not wait for the tick before.
WorkerTickBegins(t) ==
    /\ worker[t].pc = "idle"
    /\ IF t = 1 THEN TRUE ELSE worker[t - 1].pc # "idle"
    /\ worker' = [worker EXCEPT ![t] = TickBegun(@)]
    /\ UNCHANGED <<now, dbVars, schedVars, disp, plan, fetch>>

\* The API runs runDueSourceFetches(10) and answers.
WorkerIngestReturns(t) ==
    /\ worker[t].ingest = "sent"
    /\ \E db \in DueOutcomes(DB, RunDueLimit, DueFeeds, now) : WriteDB(db)
    /\ worker' = [worker EXCEPT ![t] = IngestReturned(@)]
    /\ UNCHANGED <<now, disp, plan, fetch>>

\* The run-due call fails: the API cannot be reached or answers with an error.
WorkerIngestFails(t) ==
    /\ worker[t].ingest = "sent"
    /\ worker' = [worker EXCEPT ![t] = IngestThrew(@)]
    /\ UNCHANGED <<now, dbVars, schedVars, disp, plan, fetch>>

\* The API runs dispatchDueNotifications(200) and answers.
WorkerDispatchReturns(t) ==
    /\ worker[t].dispatch = "sent"
    /\ \E db \in dispatchDueNotifications(DB, WorkerDispatchLimit, now) : WriteDB(db)
    /\ worker' = [worker EXCEPT ![t] = DispatchReturned(@)]
    /\ UNCHANGED <<now, disp, plan, fetch>>

WorkerDispatchFails(t) ==
    /\ worker[t].dispatch = "sent"
    /\ worker' = [worker EXCEPT ![t] = DispatchThrew(@)]
    /\ UNCHANGED <<now, dbVars, schedVars, disp, plan, fetch>>

NextTicks ==
    \/ Tick
    \/ \E t \in WorkerTicks : WorkerTickBegins(t)
    \/ \E t \in WorkerTicks : WorkerIngestReturns(t)
    \/ \E t \in WorkerTicks : WorkerIngestFails(t)
    \/ \E t \in WorkerTicks : WorkerDispatchReturns(t)
    \/ \E t \in WorkerTicks : WorkerDispatchFails(t)

\* The interval timer fires as long as the process lives; a call to the API
\* may stay unanswered.
SpecTicks ==
    /\ InitIngestRuns
    /\ [][NextTicks]_vars
    /\ WF_vars(\E t \in WorkerTicks : WorkerTickBegins(t))

\* ------------------------------------------- the parser on stored notices
\* The regions of the parsed notices: one per timezone of timezoneOffset.
ParseRegionIds == {1, 2, 3}

ParseSources == { Source(regionId, regionId, "RSS", TRUE) : regionId \in ParseRegionIds }

\* The titles of the parsed notices: no keyword, one keyword of each class
\* (in upper, lower and Hangul spelling), all classes at once in the reverse
\* of the order detectEventType tests them, and a title that ends with a
\* date-time.
ParseTitles ==
    { <<"notice">>,
      <<"Pickup", " ", "notice">>,
      <<"#pickup">>,
      <<"maintenance", " ", "notice">>,
      <<"update">>,
      <<"campaign">>,
      <<"campaign", " ", "update", " ", "maintenance", " ", "pickup">>,
      <<"campaign", " ", "update", " ", "maintenance">>,
      <<"campaign", " ", "update">>,
      <<"notice", " ", "2026/01/01 09:10">> }

\* The bodies of the parsed notices: none; words only, short and longer than
\* 20 characters; a full range, a same-day range and a single date-time, each
\* resolvable and not; a full range after one that does not resolve; and
\* texts where a rule of lower priority matches before one of higher priority.
ParseContents ==
    { <<>>,
      <<"notice">>,
      <<"notice", " ", "notice", " ", "notice", " ", "notice">>,
      <<"2026/01/01 09:10", " ", "~", " ", "2026/01/01 09:14">>,
      <<"notice", "\n", "2026/01/01 09:10", "-", "2026/01/01 09:14", " ", "notice">>,
      <<"2026/13/01 09:10", "~", "2026/01/01 09:14">>,
      <<"2026/01/01 09:10", "~", "2026/13/01 09:10">>,
      <<"2026/13/01 09:10", "~", "2026/01/01 09:14", " ",
        "2026/01/01 09:10", "~", "2026/01/01 09:14">>,
      <<"2026/01/01 09:10", " ", "~", " ", "09:14">>,
      <<"2026/13/01 09:10", "~", "09:14", " ", "notice">>,
      <<"2026/13/01 09:10", "~", "09:14">>,
      <<"2026/01/01 09:14">>,
      <<"notice", " ", "2026/01/01 09:14", " ", "notice">>,
      <<"2026/13/01 09:10">>,
      <<"2026/13/01 09:10", " ", "notice">>,
      <<"2026/01/01 09:14", " ", "2026/01/01 09:10", "~", "09:14", " ",
        "2026/01/01 09:10", "~", "2026/01/01 09:14">>,
      <<"2026/01/01 09:14", " ", "2026/01/01 09:10", "~", "09:14">>,
      <<"~", " ", "2026/01/01 09:14">>,
      <<"09:14", " ", "~", " ", "2026/01/01 09:14">> }

\* The row upsertRawNotice stores for a notice fetched at minute 9.
StoredNotice(id, sourceId, title, contentText) ==
    [id |-> id, source_id |-> sourceId, url |-> "a", title |-> title,
     published_at |-> NULL, fetched_at |-> 9, content_text |-> contentText,
     content_hash |-> Some(CandidateHash(Candidate("a", title, contentText, NULL))),
     raw_payload |-> <<"a", title>>, status |-> "NEW"]

\* One notice stored and not parsed yet, on the seeded catalog.
InitParse ==
    /\ now = 10
    /\ users = SeedUsers
    /\ push_subscriptions = SeedPushSubscriptions
    /\ user_games = SeedUserGames
    /\ notification_rules = { r \in SeedRules : r.id \in InterleavedRuleIds }
    /\ events = SeedEvents
    /\ sources = ParseSources
    /\ \E sourceId \in ParseRegionIds, title \in ParseTitles, contentText \in ParseContents :
          raw_notices = { StoredNotice(1, sourceId, title, contentText) }
    /\ event_raw_links = {}
    /\ ingest_runs = EmptyBag
    /\ nextEventId = Cardinality(SeedEvents) + 1
    /\ nextRawNoticeId = 2
    /\ notification_schedules = {}
    /\ nextScheduleId = 1
    /\ notification_deliveries = EmptyBag
    /\ disp = [d \in Dispatchers |-> IdleDispatch]
    /\ plan = [p \in Planners |-> IdlePlan]
    /\ fetch = [f \in Fetchers |-> IdleFetch]
    /\ worker = [t \in WorkerTicks |-> IdleTick]

NextParse ==
    \/ Tick
    \/ /\ LogRoom
       /\ ReparseRawNotice(1, "none")

SpecParse == InitParse /\ [][NextParse]_vars

\* ------------------------------------------------------------- properties
\* The ids a running dispatch call claimed.
ClaimedIds(d) == { r.id : r \in disp[d].schedules }

\* The ids a running dispatch call claimed and has not recorded an outcome for.
UnrecordedIds(d) ==
    CASE disp[d].pc = "claimed" -> ClaimedIds(d)
      [] disp[d].pc \in {"insert", "update"} ->
            { r.id : r \in disp[d].batch } \cup {disp[d].cur.id}
      [] OTHER -> {}

\* C1: among concurrent dispatchDueNotifications calls the sets of claimed
\* schedule ids are pairwise disjoint, and a row that a call claimed is never
\* PENDING again, so that no later call claims it either.
C1_ClaimExclusive ==
    /\ \A d1, d2 \in Dispatchers : d1 # d2 => ClaimedIds(d1) \cap ClaimedIds(d2) = {}
    /\ \A d \in Dispatchers : disp[d].pc \in {"insert", "update"} =>
          \A r \in notification_schedules :
              r.id \in ClaimedIds(d) => r.status # "PENDING"

\* Two calls hold claimed rows at the same time.
C1_Witness ==
    \E d1, d2 \in Dispatchers :
        /\ d1 # d2
        /\ ClaimedIds(d1) # {} /\ ClaimedIds(d2) # {}
        /\ disp[d1].pc = "claimed" /\ disp[d2].pc \in {"claimed", "insert"}

\* C2: a schedule row that one dispatch call has claimed and has not yet
\* recorded an outcome for is not claimed by a second dispatch call, under
\* any interleaving with planNotificationsForEvent and rebuildSchedulesForUser.
C2_NoSecondClaim ==
    \A d1, d2 \in Dispatchers : d1 # d2 => UnrecordedIds(d1) \cap UnrecordedIds(d2) = {}

\* C3: at most one SUCCESS delivery is recorded for a logical schedule.
C3_OneSuccessPerKey ==
    \A k \in { r.dedupe_key : r \in notification_schedules } :
        LET ids == { r.id : r \in { x \in notification_schedules : x.dedupe_key = k } }
            successes == { x \in BagToSet(notification_deliveries) :
                             x.schedule_id \in ids /\ x.result = "SUCCESS" }
        IN /\ Cardinality(successes) <= 1
           /\ \A x \in successes : notification_deliveries[x] <= 1

\* C4: no row stays PROCESSING after the dispatch call that claimed it has
\* ended: every PROCESSING row is held by a running call.
C4_NoStrandedProcessing ==
    \A r \in notification_schedules :
        r.status = "PROCESSING" => \E d \in Dispatchers : r.id \in UnrecordedIds(d)

\* C5: no step of planNotificationsForEvent or rebuildSchedulesForUser deletes
\* a SENT schedule or changes its status, and none adds a second row with its
\* dedupeKey.
C5_SentSurvivesReplan ==
    [][ plan' # plan =>
          \A r \in notification_schedules : r.status = "SENT" =>
              /\ \E x \in notification_schedules' :
                    x.id = r.id /\ x.status = "SENT" /\ x.dedupe_key = r.dedupe_key
              /\ \A x \in notification_schedules' :
                    x.dedupe_key = r.dedupe_key => x.id = r.id ]_vars

\* A re-plan of the user of a SENT row has upserted onto that user's rows.
C5_Witness ==
    \E p \in Planners : \E r \in notification_schedules :
        /\ r.status = "SENT"
        /\ plan[p].op = "rebuild" /\ plan[p].user = r.user_id
        /\ plan[p].event.id = r.event_id
        /\ plan[p].planned >= 1

ScheduleShape(r) ==
    [dedupe_key |-> r.dedupe_key, scheduled_at_utc |-> r.scheduled_at_utc,
     status |-> r.status]

ScheduleShapes(rows) == { ScheduleShape(r) : r \in rows }

IsPublicEvent(eventId) == \E e \in events : e.id = eventId /\ e.visibility = "PUBLIC"

\* C7: planning is idempotent.  After a call of planNotificationsForEvent for
\* a PUBLIC event, a second call with rules, subscriptions and the clock
\* unchanged and no dispatch in between leaves the same dedupeKeys, times and
\* statuses, and no two rows share a dedupeKey.
C7_PlanIdempotent ==
    [][ \A eventId \in PlanEventIds :
          (PlanNotificationsForEvent(eventId) /\ IsPublicEvent(eventId)) =>
              LET again == planNotificationsForEvent(DB', eventId, now')
              IN /\ ScheduleShapes(again.notification_schedules)
                       = ScheduleShapes(notification_schedules')
                 /\ Cardinality(again.notification_schedules)
                       = Cardinality({ r.dedupe_key : r \in again.notification_schedules })
                 /\ Cardinality(again.notification_schedules)
                       = Cardinality(notification_schedules') ]_vars

\* A re-plan has run: a SENT row of event 1 stands beside PENDING rows that a
\* later plan re-created, and planning once more would re-create them again.
C7_Witness ==
    /\ \E r \in notification_schedules : r.event_id = 1 /\ r.status = "SENT"
    /\ \E r \in notification_schedules : r.event_id = 1 /\ r.status = "PENDING" /\ r.id >= 5
    /\ planNotificationsForEvent(DB, 1, now).nextScheduleId > nextScheduleId
    /\ ScheduleShapes(planNotificationsForEvent(DB, 1, now).notification_schedules)
          = ScheduleShapes(notification_schedules)

\* The (channel, trigger, offset) shapes of the rules and of the rows.
TriggerShapes(rules, rows) ==
    { <<r.channel, r.trigger, IF IsNull(r.offset_minutes) THEN 0 ELSE Val(r.offset_minutes)>> :
        r \in rules }
    \cup { <<x.channel, x.trigger_type, x.trigger_offset_minutes>> : x \in rows }

\* A row of the event, user and shape with the given status.
HasRow(rows, status, userId, eventId, shape) ==
    \E x \in rows :
        /\ x.status = status /\ x.user_id = userId /\ x.event_id = eventId
        /\ x.channel = shape[1] /\ x.trigger_type = shape[2]
        /\ x.trigger_offset_minutes = shape[3]

\* The user is subscribed to the region of the event and owns an enabled rule
\* of the shape that applies to the event, with a time that is set and not
\* more than 5 minutes in the past.
WantsSchedule(userId, e, shape, clock) ==
    /\ \E g \in user_games : g.user_id = userId /\ g.region_id = e.region_id /\ g.enabled
    /\ \E r \in notification_rules :
          /\ r.user_id = userId /\ r.enabled
          /\ r.channel = shape[1] /\ r.trigger = shape[2]
          /\ (IF IsNull(r.offset_minutes) THEN 0 ELSE Val(r.offset_minutes)) = shape[3]
          /\ r.event_type = e.type
          /\ r.scope = "GLOBAL" \/ (r.scope = "REGION" /\ r.region_id = Some(e.region_id))
          /\ ~IsNull(computeScheduledAt(r, e, clock))
          /\ Val(computeScheduledAt(r, e, clock)) >= clock - GraceMinutes

\* C10: after a call of planNotificationsForEvent for a PUBLIC event e that
\* nothing runs beside, a PENDING row of e for (user, channel, trigger,
\* offset) exists exactly when the user has an enabled subscription to the
\* region of e and an enabled, applicable rule of that shape whose time is
\* set and at most 5 minutes past, and no SENT row has that key.
C10_PlannedExactly ==
    [][ \A e \in events :
          (PlanNotificationsForEvent(e.id) /\ e.visibility = "PUBLIC") =>
              \A userId \in UserIds :
                  \A shape \in TriggerShapes(notification_rules, notification_schedules') :
                      HasRow(notification_schedules', "PENDING", userId, e.id, shape)
                      <=> ( /\ WantsSchedule(userId, e, shape, now)
                            /\ ~HasRow(notification_schedules', "SENT", userId, e.id, shape) )
      ]_vars

\* After plans of event 1: user 2 has a PENDING row; user 1, whose
\* subscription is disabled, has none for the rules they own; a SENT row
\* keeps its key from being planned again; the clock has passed minute 10, so
\* that the rule due at minute 5 comes too late.
C10_Witness ==
    /\ now = 11
    /\ \E g \in user_games : g.user_id = 1 /\ g.region_id = 1 /\ ~g.enabled
    /\ \E r \in notification_schedules : r.user_id = 2 /\ r.status = "PENDING" /\ r.event_id = 1
    /\ \E r \in notification_schedules : r.user_id = 1 /\ r.status = "SENT" /\ r.event_id = 1
    /\ ~\E r \in notification_schedules : r.user_id = 1 /\ r.status = "PENDING"
    /\ ScheduleShapes(notification_schedules)
          = ScheduleShapes(planNotificationsForEvent(DB, 1, now).notification_schedules)

\* What the canonical key is computed from.
DraftTuple(source, draft) ==
    <<source.region_id, draft.type, draft.title, draft.startAtUtc, draft.endAtUtc>>

\* C8: parsing is idempotent.  Two parses of the same raw notice with its
\* content unchanged give the same event id, and the second adds no event
\* row, be the first parse one of reparseRawNotice or one of runSourceFetch
\* for a candidate it stored; two notices whose drafts agree on (regionId,
\* type, title, startAtUtc, endAtUtc) compute the same canonical key and
\* parse to the same event row.
C8_ParseIdempotent ==
    /\ \A r \in raw_notices :
          LET first == reparseRawNotice(DB, r.id, "none", now)
              second == reparseRawNotice(first.db, r.id, "none", now)
          IN /\ second.eventId = first.eventId
             /\ Cardinality(second.db.events) = Cardinality(first.db.events)
    /\ \A source \in sources, candidate \in Candidates :
          LET st == [db |-> DB, parsedCount |-> 0, errorCount |-> 0]
              first == FetchItem(st, source, candidate, "none", now)
          IN (source.enabled /\ source.type # "API" /\ first.parsedCount = 1) =>
                \A r \in RawNoticeOf(first.db, source.id, candidate.url) :
                    LET second == reparseRawNotice(first.db, r.id, "none", now)
                    IN /\ r.status = "PARSED"
                       /\ [event_id |-> second.eventId, raw_notice_id |-> r.id]
                             \in first.db.event_raw_links
                       /\ Cardinality(second.db.events) = Cardinality(first.db.events)
    /\ \A r1, r2 \in raw_notices :
          LET s1 == SourceOf(DB, r1)
              s2 == SourceOf(DB, r2)
              d1 == RawNoticeDraft(s1, r1)
              d2 == RawNoticeDraft(s2, r2)
              first == reparseRawNotice(DB, r1.id, "none", now)
          IN DraftTuple(s1, d1) = DraftTuple(s2, d2) =>
                /\ DraftKey(s1, d1) = DraftKey(s2, d2)
                /\ reparseRawNotice(first.db, r2.id, "none", now).eventId = first.eventId

\* A fetch has parsed two notices with different urls into one new event,
\* and a reparse of one of them has run: there is still one new event.
C8_Witness ==
    /\ \E run \in BagToSet(ingest_runs) : run.mode = "REPARSE" /\ run.status = "SUCCESS"
    /\ \E r1, r2 \in raw_notices :
          /\ r1.url # r2.url /\ r1.status = "PARSED" /\ r2.status = "PARSED"
          /\ \E e \in events \ SeedEvents :
                /\ [event_id |-> e.id, raw_notice_id |-> r1.id] \in event_raw_links
                /\ [event_id |-> e.id, raw_notice_id |-> r2.id] \in event_raw_links
    /\ Cardinality(events) = Cardinality(SeedEvents) + 1

\* The raw notice row a same-hash fetch of the candidate leaves.
Refetched(r, candidate, clock) ==
    [r EXCEPT !.fetched_at = clock, !.title = candidate.title,
              !.published_at = IF IsNull(candidate.publishedAt) THEN @
                               ELSE candidate.publishedAt]

\* C9: a fetch of a candidate whose (sourceId, url) row has the same content
\* hash reports changed = false and changes only fetched_at, title and (when
\* the candidate has one) published_at of that row: its status, content_text
\* and hash, every other raw notice, every event, link and schedule row stay
\* as they are, and the parser and the planner are not run for it (nothing is
\* counted as parsed, and a failure injected in them is not met).
C9_SameHashFetchFrame ==
    \A source \in sources, candidate \in Candidates, point \in FailPoints \ {"raw"} :
        \A r \in RawNoticeOf(DB, source.id, candidate.url) :
            r.content_hash = Some(CandidateHash(candidate)) =>
                LET st == [db |-> DB, parsedCount |-> 0, errorCount |-> 0]
                    after == FetchItem(st, source, candidate, point, now)
                IN /\ ~upsertRawNotice(DB, source.id, candidate, now).changed
                   /\ after.parsedCount = 0
                   /\ after.errorCount = 0
                   /\ [after.db EXCEPT !.raw_notices = raw_notices] = DB
                   /\ after.db.raw_notices
                         = (raw_notices \ {r}) \cup {Refetched(r, candidate, now)}

\* A second fetch, a minute after the first, has met the notice with its
\* word "notice" moved to the body and a publication date: the row has the
\* new title, date and fetch time and is still PARSED with its old text, the
\* run counted nothing as parsed, and no event was made at that minute.
C9_Witness ==
    /\ now = 11
    /\ \E run \in BagToSet(ingest_runs) :
          /\ run.status = "SUCCESS" /\ run.fetched_count = 1
          /\ run.parsed_count = 0 /\ run.error_count = 0
    /\ \E r \in raw_notices :
          /\ r.status = "PARSED" /\ r.fetched_at = 11 /\ r.title = <<"pickup">>
          /\ r.published_at = Some(9)
          /\ r.content_text = <<"2026/01/01 09:10", "~", "2026/01/01 09:14">>
    /\ \A e \in events : e.created_at # Some(11)

\* The rows of an event.
EventSchedules(rows, eventId) == { r \in rows : r.event_id = eventId }

\* C11 as stated: planNotificationsForEvent for an event that is not PUBLIC
\* (here the call PATCH /events/:id makes after it set the visibility)
\* creates, modifies and deletes no notification_schedules row.
C11_NonPublicPlanNoOp ==
    [][ \A eventId \in PlanEventIds, visibility \in Visibilities \ {"PUBLIC"} :
          PatchEvent(eventId, visibility) =>
              notification_schedules' = notification_schedules ]_vars

\* C11 amended: planNotificationsForEvent for an event that is not PUBLIC
\* creates and modifies no notification_schedules row; it deletes the rows
\* of the event that are PENDING, FAILED or CANCELED, and no other row.
C11_NonPublicPlanPurgesOnly ==
    [][ \A eventId \in PlanEventIds, visibility \in Visibilities \ {"PUBLIC"} :
          PatchEvent(eventId, visibility) =>
              /\ notification_schedules'
                    = PurgeSchedules(notification_schedules,
                                     EventSchedules(notification_schedules, eventId))
              /\ nextScheduleId' = nextScheduleId ]_vars

\* Event 1 was hidden after one of its schedules was sent: the SENT row is
\* there, the user still has an enabled subscription and rules for it, and
\* no PENDING row of the event is left.
C11_Witness ==
    /\ \E e \in events : e.id = 1 /\ e.visibility = "HIDDEN"
    /\ \E r \in notification_schedules : r.event_id = 1 /\ r.status = "SENT"
    /\ \E g \in user_games : g.user_id = 2 /\ g.region_id = 1 /\ g.enabled
    /\ ~\E r \in notification_schedules : r.event_id = 1 /\ r.status \in PurgedStatuses

\* The rows with the dedupeKey of a user, an event and a rule.
KeyRows(rows, userId, event, rule) ==
    { x \in rows : x.dedupe_key = RuleDedupeKey(userId, event, rule) }

\* The event row the plan of PATCH /events/:id works on.
PatchedEvent(eventId, visibility) ==
    CHOOSE e \in getEvent([DB EXCEPT !.events = PatchEventRows(@, eventId, visibility)],
                          eventId) : TRUE

\* C12: when a PUBLIC event is planned, a rule of a target user whose time
\* is more than 5 minutes before the clock gets no row created or updated
\* (what stays under its key is an earlier row, untouched) and is counted as
\* skipped; a rule whose time is exactly 5 minutes past or later has a row
\* with that time and is counted as planned.
C12_SkipsMoreThanFiveMinutesPast ==
    [][ \A eventId \in { e.id : e \in events } :
          PatchEvent(eventId, "PUBLIC") =>
              LET event == PatchedEvent(eventId, "PUBLIC")
                  pairs == PlanPairs(DB, event, 0)
                  at(x) == computeScheduledAt(x[2], event, now)
                  late == { x \in pairs : ~IsNull(at(x)) /\ Val(at(x)) < now - 5 }
                  undated == { x \in pairs : IsNull(at(x)) }
                  result == planForEventAndUsersResult(DB, event, 0, now)
              IN /\ \A x \in late :
                       /\ KeyRows(notification_schedules', x[1], event, x[2])
                             \subseteq notification_schedules
                       /\ \A r \in KeyRows(notification_schedules', x[1], event, x[2]) :
                             r.status # "PENDING"
                 /\ \A x \in pairs \ (late \cup undated) :
                       \E r \in KeyRows(notification_schedules', x[1], event, x[2]) :
                           /\ r.scheduled_at_utc = Val(at(x))
                           /\ r.status \in {"PENDING", "SENT"}
                 /\ result.skipped = Cardinality(late \cup undated)
                 /\ result.planned = Cardinality(pairs \ (late \cup undated)) ]_vars

\* Event 1 was planned at minute 10: user 1's rule for 5 minutes before the
\* start (minute 5, exactly 5 minutes past) has its PENDING row, the rule for
\* 7 minutes before the start (minute 3) has none, and the call counted both.
C12_Witness ==
    /\ now = 10
    /\ \E r \in notification_schedules :
          /\ r.user_id = 1 /\ r.event_id = 1 /\ r.trigger_type = "BEFORE_START"
          /\ r.trigger_offset_minutes = 5 /\ r.scheduled_at_utc = 5 /\ r.status = "PENDING"
    /\ ~\E r \in notification_schedules :
          r.trigger_type = "BEFORE_START" /\ r.trigger_offset_minutes = 7
    /\ \E e \in getEvent(DB, 1) :
          /\ planForEventAndUsersResult(DB, e, 0, now).skipped = 1
          /\ planForEventAndUsersResult(DB, e, 0, now).planned = 5

\* The stored notices an event is linked to: the ones a parse went through.
ParsedNotices ==
    { r \in raw_notices : \E l \in event_raw_links : l.raw_notice_id = r.id }

LinkedEvents(rawNotice) ==
    { e \in events : \E l \in event_raw_links :
        l.raw_notice_id = rawNotice.id /\ l.event_id = e.id }

NoticeTimezone(rawNotice) == RegionTimezone(SourceOf(DB, rawNotice).region_id)

NoticeText(rawNotice) == rawNotice.title \o <<"\n">> \o rawNotice.content_text

NoticeDraft(rawNotice) ==
    parseRawNoticeToEventDraft(rawNotice.title, rawNotice.content_text,
                               NoticeTimezone(rawNotice))

\* C13: a draft built from text in which no date-time is resolved (date
\* range score 0) has a confidence below 0.65 and visibility NEED_REVIEW,
\* whichever keyword class it matches and however long its summary is, and
\* so has the event row the parse stores.
C13_NoDateNeedsReview ==
    \A r \in ParsedNotices :
        extractDateRange(NoticeText(r), NoticeTimezone(r)).score = 0 =>
            /\ NoticeDraft(r).confidence < Hundredth * 65
            /\ NoticeDraft(r).visibility = "NEED_REVIEW"
            /\ \A e \in LinkedEvents(r) :
                  e.confidence < 65 /\ e.visibility = "NEED_REVIEW"

\* The parts of the confidence of a stored notice, in hundredths.
NoticeTypeScore(rawNotice) == detectEventType(NoticeText(rawNotice)).score

NoticeDateScore(rawNotice) ==
    extractDateRange(NoticeText(rawNotice), NoticeTimezone(rawNotice)).score

NoticeSummaryScore(rawNotice) ==
    IF TextLen(summarize(IF rawNotice.content_text # <<>> THEN rawNotice.content_text
                         ELSE rawNotice.title, 220)) > 20
    THEN 10 ELSE 0

NoticeScoreSum(rawNotice) ==
    35 + NoticeTypeScore(rawNotice) + NoticeDateScore(rawNotice)
       + NoticeSummaryScore(rawNotice)

ClassOrder == <<"PICKUP", "MAINTENANCE", "UPDATE", "CAMPAIGN">>

ClassKeywords(type) ==
    CASE type = "PICKUP" -> pickupKeywords
      [] type = "MAINTENANCE" -> maintenanceKeywords
      [] type = "UPDATE" -> updateKeywords
      [] type = "CAMPAIGN" -> campaignKeywords

\* The classes with a keyword in the text of a stored notice, by position in
\* ClassOrder.
ClassHits(rawNotice) ==
    { k \in 1..Len(ClassOrder) :
        \E i \in 1..Len(NoticeText(rawNotice)) :
            LowerCase(NoticeText(rawNotice)[i]) \in ClassKeywords(ClassOrder[k]) }

\* C15: detectEventType returns the type of the first class with a hit in
\* the order PICKUP, MAINTENANCE, UPDATE, CAMPAIGN, and EVENT, with a score
\* below that of every class, when no class hits.  A text with a pickup
\* keyword is typed PICKUP whatever other keywords it holds, and with a
\* resolvable full date range its draft and its event row are PUBLIC.
C15_FirstKeywordClassWins ==
    \A r \in raw_notices :
        /\ ClassHits(r) # {} =>
              NoticeDraft(r).type = ClassOrder[First(ClassHits(r))]
        /\ ClassHits(r) = {} =>
              /\ NoticeDraft(r).type = "EVENT"
              /\ \A type \in { ClassOrder[k] : k \in 1..Len(ClassOrder) } :
                    \A k \in ClassKeywords(type) :
                        NoticeTypeScore(r) < detectEventType(<<k>>).score
        /\ 1 \in ClassHits(r) =>
              /\ NoticeDraft(r).type = "PICKUP"
              /\ \A e \in LinkedEvents(r) : e.type = "PICKUP"
              /\ NoticeDateScore(r) = 35 =>
                    /\ NoticeDraft(r).confidence >= Hundredth * 65
                    /\ NoticeDraft(r).visibility = "PUBLIC"
                    /\ \A e \in LinkedEvents(r) : e.visibility = "PUBLIC"

\* A parsed notice with keywords of all four classes and a resolvable full
\* range: a PUBLIC pickup event.
C15_Witness ==
    \E r \in ParsedNotices :
        /\ ClassHits(r) = 1..Len(ClassOrder)
        /\ NoticeDateScore(r) = 35
        /\ \E e \in LinkedEvents(r) : e.type = "PICKUP" /\ e.visibility = "PUBLIC"

\* The timezones timezoneOffset knows, with their offsets in minutes.
KnownTimezones == {"Asia/Seoul", "Asia/Tokyo", "UTC"}

FixedOffset(timezone) == IF timezone = "UTC" THEN 0 ELSE 540

\* The normalized text of a stored notice, and the positions in it of the
\* well-formed ranges: two date-times that name a minute, with a separator.
NoticeSource(rawNotice) == normalizeText(NoticeText(rawNotice))

WellFormedRangeAt(source) ==
    { i \in FullRangeAt(source) :
        /\ ~IsNull(LocalMinutes(source[i]))
        /\ ~IsNull(LocalMinutes(source[AfterSeparator(source, i + 1)])) }

\* The range at position i of a text, converted with a fixed offset.
RangeToUtc(source, i, offset) ==
    DateRange(Some(Val(LocalMinutes(source[i])) - offset),
              Some(Val(LocalMinutes(source[AfterSeparator(source, i + 1)])) - offset),
              35)

\* C16 as stated: for every text that contains a well-formed full range and
\* every known timezone, extractDateRange returns the two local times of a
\* well-formed range of the text minus the fixed offset, with score 0.35.
C16_FullRangeToUtc ==
    \A r \in raw_notices, timezone \in KnownTimezones :
        WellFormedRangeAt(NoticeSource(r)) # {} =>
            \E i \in WellFormedRangeAt(NoticeSource(r)) :
                extractDateRange(NoticeText(r), timezone)
                    = RangeToUtc(NoticeSource(r), i, FixedOffset(timezone))

\* C16, amended: for every text whose first full-range match is well-formed
\* and every known timezone, extractDateRange returns the two local times of
\* that range minus the fixed offset, with score 0.35; the event row a parse
\* stores carries the two times, converted with the timezone of the region.
C16_FirstFullRangeToUtc ==
    \A r \in raw_notices :
        (/\ FullRangeAt(NoticeSource(r)) # {}
         /\ First(FullRangeAt(NoticeSource(r))) \in WellFormedRangeAt(NoticeSource(r))) =>
            /\ \A timezone \in KnownTimezones :
                  extractDateRange(NoticeText(r), timezone)
                      = RangeToUtc(NoticeSource(r), First(FullRangeAt(NoticeSource(r))),
                                   FixedOffset(timezone))
            /\ \A e \in LinkedEvents(r) :
                  /\ e.start_at_utc = RangeToUtc(NoticeSource(r),
                          First(FullRangeAt(NoticeSource(r))),
                          FixedOffset(NoticeTimezone(r))).startAtUtc
                  /\ e.end_at_utc = RangeToUtc(NoticeSource(r),
                          First(FullRangeAt(NoticeSource(r))),
                          FixedOffset(NoticeTimezone(r))).endAtUtc

\* A parsed notice of the Asia/Tokyo region with the range 09:10 ~ 09:14:
\* its event runs from 00:10 to 00:14 UTC.
C16_Witness ==
    \E r \in ParsedNotices :
        /\ NoticeTimezone(r) = "Asia/Tokyo"
        /\ WellFormedRangeAt(NoticeSource(r)) # {}
        /\ \E e \in LinkedEvents(r) :
              e.start_at_utc = Some(10) /\ e.end_at_utc = Some(14)

\* The UTC minute of the date-time (or of the time of day) a token names.
TokenUtc(token, timezone) ==
    IF IsNull(LocalMinutes(token)) THEN NULL
    ELSE Some(Val(LocalMinutes(token)) - FixedOffset(timezone))

\* The token after the separator of the range at position i.
RangeEnd(source, i) == source[AfterSeparator(source, i + 1)]

FullRangeRule(source, timezone, result) ==
    LET i == First(FullRangeAt(source))
    IN /\ result.startAtUtc = TokenUtc(source[i], timezone)
       /\ result.endAtUtc = TokenUtc(RangeEnd(source, i), timezone)
       /\ result.score =
             IF ~IsNull(result.startAtUtc) /\ ~IsNull(result.endAtUtc) THEN 35 ELSE 15

SameDateRule(source, timezone, result) ==
    LET i == First(SameDateRangeAt(source))
    IN /\ result.startAtUtc = TokenUtc(source[i], timezone)
       /\ IF IsNull(result.startAtUtc)
          THEN IsNull(result.endAtUtc) /\ result.score = 10
          ELSE /\ result.endAtUtc = TokenUtc(RangeEnd(source, i), timezone)
               /\ (Val(result.startAtUtc) + FixedOffset(timezone)) \div DayMinutes
                    = (Val(result.endAtUtc) + FixedOffset(timezone)) \div DayMinutes
               /\ result.score = 30

SingleRule(source, timezone, result) ==
    /\ result.startAtUtc = TokenUtc(source[First(SingleAt(source))], timezone)
    /\ IsNull(result.endAtUtc)
    /\ result.score = IF ~IsNull(result.startAtUtc) THEN 15 ELSE 5

\* C17: extractDateRange applies its rules in a fixed priority: the first
\* full range if one matches (0.35), otherwise the first same-day range, both
\* ends on the same local date (0.30), otherwise the first single date-time
\* with a null end (0.15), otherwise nulls with score 0.  A matched date-time
\* that does not resolve gives null with a score of at most 0.15, below the
\* score of its rule, and the parse of such a notice does not raise.
C17_RulePriority ==
    \A r \in raw_notices :
        /\ \A timezone \in KnownTimezones :
              LET source == NoticeSource(r)
                  result == extractDateRange(NoticeText(r), timezone)
              IN /\ IF FullRangeAt(source) # {}
                    THEN FullRangeRule(source, timezone, result)
                    ELSE IF SameDateRangeAt(source) # {}
                    THEN SameDateRule(source, timezone, result)
                    ELSE IF SingleAt(source) # {}
                    THEN SingleRule(source, timezone, result)
                    ELSE result = DateRange(NULL, NULL, 0)
                 /\ (/\ SingleAt(source) # {}
                     /\ \/ IsNull(result.startAtUtc)
                        \/ /\ IsNull(result.endAtUtc)
                           /\ FullRangeAt(source) \cup SameDateRangeAt(source) # {}) =>
                       result.score \in {5, 10, 15}
        /\ ~reparseRawNotice(DB, r.id, "none", now).raised

\* A parsed notice whose text has a single date-time and a same-day range
\* before its full range: the event runs over the full range.
C17_Witness ==
    \E r \in ParsedNotices :
        /\ FullRangeAt(NoticeSource(r)) # {}
        /\ SameDateRangeAt(NoticeSource(r)) # {}
        /\ First(SingleAt(NoticeSource(r))) < First(SameDateRangeAt(NoticeSource(r)))
        /\ First(SameDateRangeAt(NoticeSource(r))) < First(FullRangeAt(NoticeSource(r)))
        /\ \E e \in LinkedEvents(r) :
              ~IsNull(e.start_at_utc) /\ ~IsNull(e.end_at_utc)
              /\ Val(e.end_at_utc) - Val(e.start_at_utc) = 4

\* The rows no open claim has locked, and those of them that are PENDING and
\* due at the clock.
UnlockedRows == { r \in notification_schedules : r.id \notin LockedIds }

DueRows == { r \in UnlockedRows : r.status = "PENDING" /\ r.scheduled_at_utc <= now }

\* C18: a dispatchDueNotifications(limit) call claims only rows that are
\* PENDING with a time at or before the clock when it claims; it claims at
\* most `limit` rows, all of them when no more than `limit` such rows are
\* unlocked, and otherwise `limit` rows none of which is later than an
\* unclaimed one.  A row with a time in the future or with status SENT, FAILED,
\* CANCELED or PROCESSING is not claimed.
C18_ClaimsDuePendingEarliest ==
    [][ \A d \in Dispatchers, limit \in 1..MaxLimit :
          DispatchClaim(d, limit) =>
            /\ disp'[d].schedules \subseteq DueRows
            /\ \A s \in disp'[d].schedules :
                  /\ s.status \notin {"SENT", "FAILED", "CANCELED", "PROCESSING"}
                  /\ ~(s.scheduled_at_utc > now)
            /\ Cardinality(disp'[d].schedules) <= limit
            /\ Cardinality(DueRows) <= limit => disp'[d].schedules = DueRows
            /\ Cardinality(DueRows) > limit =>
                  /\ Cardinality(disp'[d].schedules) = limit
                  /\ \A s \in disp'[d].schedules, c \in DueRows \ disp'[d].schedules :
                        s.scheduled_at_utc <= c.scheduled_at_utc ]_vars

\* A call with limit 1 holds the row due at minute 9 while a row due at
\* minute 10 stays PENDING and unlocked, next to rows that are SENT or
\* FAILED, PROCESSING and not yet due.
C18_Witness ==
    \E d \in Dispatchers :
        /\ disp[d].pc = "claimed"
        /\ Cardinality(disp[d].schedules) = 1
        /\ \E s \in disp[d].schedules, c \in DueRows :
              s.scheduled_at_utc < c.scheduled_at_utc

\* The status the claim gives a processed schedule, from its channel and the
\* stored data of its user.
ExpectedStatus(schedule) ==
    CASE schedule.channel = "WEBPUSH" ->
            IF \E x \in push_subscriptions : x.user_id = schedule.user_id
            THEN "SENT" ELSE "FAILED"
      [] schedule.channel = "EMAIL" ->
            IF \E u \in users : u.id = schedule.user_id /\ u.email # NULL
            THEN "SENT" ELSE "FAILED"
      [] schedule.channel = "DISCORD" -> "FAILED"

DeliveriesOf(scheduleId) ==
    { x \in BagToSet(notification_deliveries) : x.schedule_id = scheduleId }

\* C19: the outcome of a claimed schedule is a function of its channel and
\* the data of its user: WEBPUSH without a push subscription, EMAIL without
\* an email and DISCORD end FAILED, WEBPUSH with a subscription and EMAIL
\* with an email end SENT with a SUCCESS delivery.  A failure of this kind is
\* recorded as a FAILED delivery; it does not take the call to its catch
\* block, and the call goes on with the rest of its batch.
C19_OutcomeByChannel ==
    /\ \A r \in notification_schedules :
          /\ r.status \in {"SENT", "FAILED"} =>
                /\ r.status = ExpectedStatus(r)
                /\ DeliveriesOf(r.id) # {}
          /\ \A x \in DeliveriesOf(r.id) :
                x.result = IF ExpectedStatus(r) = "SENT" THEN "SUCCESS" ELSE "FAILED"
    /\ \A d \in Dispatchers :
          /\ ~disp[d].catch
          /\ disp[d].pc \in {"insert", "update"} =>
                disp[d].result = (IF ExpectedStatus(disp[d].cur) = "SENT"
                                  THEN "SUCCESS" ELSE "FAILED")
          /\ disp[d].pc = "idle" => disp[d].batch = {}

\* All three rows are processed: the DISCORD row and the EMAIL row of a user
\* without email are FAILED, the WEBPUSH row of a subscribed user is SENT.
C19_Witness ==
    /\ \A u \in users : u.id = 1 => u.email = NULL
    /\ \E r \in notification_schedules : r.channel = "EMAIL" /\ r.status = "FAILED"
    /\ \E r \in notification_schedules : r.channel = "DISCORD" /\ r.status = "FAILED"
    /\ \E r \in notification_schedules : r.channel = "WEBPUSH" /\ r.status = "SENT"
    /\ BagCardinality(notification_deliveries) = 3

\* The claimed schedules a running call is done with.
DoneRows(d) ==
    { r \in disp[d].schedules : r \notin disp[d].batch /\ r.id # disp[d].cur.id }

\* The counters of a running call count the schedules it is done with.
CountersAddUp ==
    \A d \in Dispatchers : disp[d].pc \in {"insert", "update"} =>
        disp[d].sent + disp[d].failed = Cardinality(DoneRows(d))

\* What a step does to the deliveries and to the call of worker d.
CallStep(d) ==
    /\ (disp[d].pc = "insert" /\ disp'[d] # disp[d]) =>
          /\ disp'[d].pc = "update"
          /\ disp'[d].cur = disp[d].cur
          /\ notification_deliveries' = notification_deliveries (+)
                SetToBag({[schedule_id |-> disp[d].cur.id, result |-> disp[d].result]})
    /\ (disp[d].pc = "update" /\ disp'[d] # disp[d]) =>
          /\ \E r \in notification_schedules' :
                /\ r.id = disp[d].cur.id
                /\ r.status = "SENT" <=> disp[d].result = "SUCCESS"
                /\ r.status = "FAILED" <=> disp[d].result = "FAILED"
          /\ disp'[d].pc = "idle" =>
                /\ disp[d].batch = {}
                /\ disp[d].sent + disp[d].failed + 1 = Cardinality(disp[d].schedules)

DeliveryAppended ==
    BagCardinality(notification_deliveries') > BagCardinality(notification_deliveries)

\* C20: a dispatchDueNotifications call appends exactly one delivery row for
\* each schedule it claimed, SUCCESS when it sets the schedule to SENT and
\* FAILED when it sets it to FAILED, and returns counters with
\* picked = sent + failed, picked being the number of rows it claimed.  In
\* steps: the counters of a running call add up to the schedules it is done
\* with; work on a schedule leaves the INSERT only with one row appended for
\* it; the UPDATE leaves the schedule with the status of that row; the call
\* ends by returning, when it is done with every claimed row; and no delivery
\* row is appended in any other way.
C20_OneDeliveryPerClaimed ==
    [][ /\ \A d \in Dispatchers : CallStep(d)
        /\ DeliveryAppended =>
              \E d \in Dispatchers : disp[d].pc = "insert" /\ disp'[d].pc = "update"
        /\ CountersAddUp' ]_vars

\* C21: the delivery log is append-only.  No step of dispatch, of
\* planNotificationsForEvent or of rebuildSchedulesForUser removes or alters
\* a delivery row: every row of the log, with every one of its copies, is
\* still in the log after the step, also the rows of an attempt that FAILED
\* and whose schedule was planned again.
C21_DeliveryLogAppendOnly ==
    [][ \A x \in BagToSet(notification_deliveries) :
          /\ x \in BagToSet(notification_deliveries')
          /\ notification_deliveries'[x] >= notification_deliveries[x] ]_vars

\* A run of runSourceFetch on source 1 whose feed is a single candidate that
\* fails, and after which the raw notice of the candidate is ERROR.
FailedItemRun(fetched, fail) ==
    /\ Len(fetched.items) = 1
    /\ fail.index = 1
    /\ RunSourceFetch(1, "MANUAL", fetched, fail)
    /\ \E r \in raw_notices' :
          r.source_id = 1 /\ r.url = fetched.items[1].url /\ r.status = "ERROR"

\* C22: when runSourceFetch marks a raw notice ERROR for a failed item, the
\* events table is as it was before the item was processed, whichever of
\* the raw upsert, the event upsert, the link insert, the status update and
\* the re-plan failed.
C22_FailedItemLeavesEvents ==
    [][ \A fetched \in Feeds :
          \A fail \in Failures(fetched) :
              FailedItemRun(fetched, fail) => events' = events ]_vars

\* The candidates among the first n of a run that upsertRawNotice reported
\* unchanged.
RECURSIVE UnchangedCount(_, _, _, _, _, _)
UnchangedCount(db, source, candidates, n, fail, clock) ==
    IF n = 0 THEN 0
    ELSE UnchangedCount(db, source, candidates, n - 1, fail, clock) +
         ( IF /\ ~(fail.index = n /\ fail.point = "raw")
              /\ ~upsertRawNotice(FetchItems(db, source, candidates, n - 1, fail, clock).db,
                                  source.id, candidates[n], clock).changed
           THEN 1 ELSE 0 )

\* The candidate is the last of the feed with its url, and its raw upsert
\* did not fail.
LastStored(fetched, fail, i) ==
    /\ ~(fail.index = i /\ fail.point = "raw")
    /\ \A j \in (i + 1)..Len(fetched.items) : fetched.items[j].url # fetched.items[i].url

\* What C23 says of the run `run` logged by a call that left `res`.
SummaryAddsUp(db, source, fetched, fail, clock, res, run) ==
    /\ ~res.raised
    /\ run.fetched_count = Len(fetched.items)
    /\ run.parsed_count + run.error_count
          + UnchangedCount(db, source, fetched.items, Len(fetched.items), fail, clock)
          = run.fetched_count
    /\ run.status = IF run.error_count > 0 THEN "PARTIAL" ELSE "SUCCESS"
    /\ \A i \in 1..Len(fetched.items) :
          LastStored(fetched, fail, i) =>
              \E r \in res.db.raw_notices :
                  /\ r.source_id = source.id /\ r.url = fetched.items[i].url
                  /\ r.content_hash = Some(CandidateHash(fetched.items[i]))

RunAddsUp(db, source, fetched, fail, clock, res) ==
    /\ BagCardinality(res.db.ingest_runs (-) db.ingest_runs) = 1
    /\ \A run \in BagToSet(res.db.ingest_runs (-) db.ingest_runs) :
          SummaryAddsUp(db, source, fetched, fail, clock, res, run)

\* C23: in runSourceFetch a failure while storing or parsing one candidate
\* does not stop the others: every candidate is attempted, the call returns
\* its summary and does not raise, fetchedCount is the number of candidates,
\* parsedCount + errorCount + the number of unchanged candidates is
\* fetchedCount, and the status is PARTIAL iff errorCount > 0 and SUCCESS
\* otherwise.
C23_ItemFailureContained ==
    LogRoom =>
        \A source \in sources, fetched \in Feeds :
            \A fail \in Failures(fetched) :
                (source.enabled /\ source.type # "API" /\ ~fetched.threw) =>
                    RunAddsUp(DB, source, fetched, fail, now,
                              runSourceFetch(DB, source.id, "MANUAL", fetched, fail, now))

\* A run of two candidates has failed on one and parsed the other.
C23_Witness ==
    \E run \in BagToSet(ingest_runs) :
        /\ run.status = "PARTIAL" /\ run.fetched_count = 2
        /\ run.parsed_count = 1 /\ run.error_count = 1
        /\ \E r1, r2 \in raw_notices :
              /\ r1.source_id = run.source_id /\ r2.source_id = run.source_id
              /\ r1.status = "ERROR" /\ r2.status = "PARSED"

\* Candidate i of the run is one upsertRawNotice reported changed.
ItemChanged(db, source, items, fail, clock, i) ==
    /\ ~(fail.index = i /\ fail.point = "raw")
    /\ upsertRawNotice(FetchItems(db, source, items, i - 1, fail, clock).db,
                       source.id, items[i], clock).changed

\* The candidate is the last of the feed with its url.
LastOfUrl(items, i) == \A j \in (i + 1)..Len(items) : items[j].url # items[i].url

\* The notice has a link to an event whose planning has run on `db`: a
\* further planNotificationsForEvent leaves the keys, times and statuses.
LinkedAndPlanned(db, r, clock) ==
    \E l \in db.event_raw_links :
        /\ l.raw_notice_id = r.id
        /\ \E e \in db.events : e.id = l.event_id
        /\ ScheduleShapes(planNotificationsForEvent(db, l.event_id, clock).notification_schedules)
              = ScheduleShapes(db.notification_schedules)

\* The notice of candidate i when the item is done (db) and when the run is
\* done (final): PARSED, linked and planned if no step of the item failed,
\* ERROR otherwise.
EndsAsClaimed(db, final, source, items, fail, clock, i) ==
    /\ RawNoticeOf(final, source.id, items[i].url) # {}
    /\ \A r \in RawNoticeOf(final, source.id, items[i].url) :
          r.status = IF fail.index = i THEN "ERROR" ELSE "PARSED"
    /\ fail.index # i =>
          \A r \in RawNoticeOf(db, source.id, items[i].url) :
              r.status = "PARSED" /\ LinkedAndPlanned(db, r, clock)

\* C24 as stated: every candidate that upsertRawNotice reports changed ends
\* the source run with its raw notice PARSED if the event upsert, the link
\* insert and the re-plan all completed and ERROR otherwise, never NEW, and
\* a PARSED one has its link and its event planned when it is counted.
C24_ChangedEndsParsedOrError ==
    LogRoom =>
        \A source \in sources, fetched \in Feeds :
            \A fail \in Failures(fetched) :
                (source.enabled /\ source.type # "API" /\ ~fetched.threw) =>
                    \A i \in 1..Len(fetched.items) :
                        ItemChanged(DB, source, fetched.items, fail, now, i) =>
                            EndsAsClaimed(
                                FetchItems(DB, source, fetched.items, i, fail, now).db,
                                runSourceFetch(DB, source.id, "MANUAL", fetched, fail, now).db,
                                source, fetched.items, fail, now, i)

\* C24 amended: every candidate that upsertRawNotice reports changed and that
\* is the last of the feed with its url ends the source run with its raw
\* notice PARSED if the event upsert, the link insert and the re-plan all
\* completed and ERROR otherwise, never NEW, and a PARSED one has its link and
\* its event planned when it is counted.
C24_LastChangedEndsParsedOrError ==
    LogRoom =>
        \A source \in sources, fetched \in Feeds :
            \A fail \in Failures(fetched) :
                (source.enabled /\ source.type # "API" /\ ~fetched.threw) =>
                    \A i \in 1..Len(fetched.items) :
                        ( /\ ItemChanged(DB, source, fetched.items, fail, now, i)
                          /\ LastOfUrl(fetched.items, i) ) =>
                            EndsAsClaimed(
                                FetchItems(DB, source, fetched.items, i, fail, now).db,
                                runSourceFetch(DB, source.id, "MANUAL", fetched, fail, now).db,
                                source, fetched.items, fail, now, i)

\* A run has left one notice ERROR with no link and another PARSED, linked
\* to an event that has a PENDING schedule; no notice is NEW.
C24_Witness ==
    /\ \A r \in raw_notices : r.status # "NEW"
    /\ \E r \in raw_notices :
          /\ r.status = "ERROR"
          /\ \A l \in event_raw_links : l.raw_notice_id # r.id
    /\ \E r \in raw_notices, l \in event_raw_links :
          /\ r.status = "PARSED" /\ l.raw_notice_id = r.id
          /\ \E x \in notification_schedules :
                x.event_id = l.event_id /\ x.status = "PENDING"

\* The status changes C25 allows on an existing row.
AllowedStatusChanges ==
    { <<"PENDING", "PROCESSING">>, <<"PROCESSING", "SENT">>,
      <<"PROCESSING", "FAILED">>, <<"FAILED", "PENDING">> }

\* The status changes a step makes to the rows it keeps.
StatusChanges(before, after) ==
    { <<pair[1].status, pair[2].status>> :
        pair \in { q \in before \X after : q[1].id = q[2].id /\ q[1].status # q[2].status } }

\* C25: every status change that any operation makes to an existing
\* notification_schedules row is PENDING->PROCESSING, PROCESSING->SENT,
\* PROCESSING->FAILED or FAILED->PENDING; re-planning never changes the
\* status of a PROCESSING row, SENT is never left, and dispatch never claims
\* a FAILED row.
C25_StatusChangesAllowed ==
    [][ StatusChanges(notification_schedules, notification_schedules')
            \subseteq AllowedStatusChanges ]_vars

\* The dedupeKeys of the schedules the seed rules give event 1.
LiveKeys == { RuleDedupeKey(rule.user_id, SeedEvent(1), rule) : rule \in SeedRules }

DuePending(key) ==
    \E r \in notification_schedules :
        r.dedupe_key = key /\ r.status = "PENDING" /\ r.scheduled_at_utc <= now

Attempted(key) ==
    \E r \in notification_schedules :
        r.dedupe_key = key /\ r.status \in {"SENT", "FAILED"}

\* C26: with dispatchDueNotifications invoked again and again and re-planning
\* interleaved at any time, events, rules and subscriptions unchanged, every
\* schedule that is PENDING and due eventually gets a delivery attempt
\* recorded (it reaches SENT or FAILED).
C26_DueEventuallyAttempted ==
    \A key \in LiveKeys : [](DuePending(key) => <>Attempted(key))

HardFails(x, input) == x.enabled /\ (x.type = "API" \/ input.fetched.threw)

SourceRow(db, sourceId) == CHOOSE y \in db.sources : y.id = sourceId

\* The bookkeeping of a hard failure of source x that left `res`.
HardFailureBooked(db, x, clock, res) ==
    /\ res.raised
    /\ SourceRow(res.db, x.id).last_error_at = Some(clock)
    /\ ~IsNull(SourceRow(res.db, x.id).last_error_message)
    /\ SourceRow(res.db, x.id).last_success_at = x.last_success_at
    /\ BagCardinality(res.db.ingest_runs (-) db.ingest_runs) = 1
    /\ \A run \in BagToSet(res.db.ingest_runs (-) db.ingest_runs) :
          run.source_id = x.id /\ run.status = "FAILED" /\ run.error_count >= 1
    /\ x \in DueSources(db, clock) => SourceRow(res.db, x.id) \in DueSources(res.db, clock)

\* Every row list the next query may give under the limit has the source.
SelectedNext(db, sourceId, limit, clock) ==
    \A rows \in DueSelections(db, limit, clock) :
        \E i \in DOMAIN rows : rows[i].id = sourceId

\* The due sources the order of the query puts no later than the source.
NotLater(db, sourceId, clock) ==
    { y \in DueSources(db, clock) :
        y.id # sourceId /\ DueKey(y) <= DueKey(SourceRow(db, sourceId)) }

\* C27 as stated: a source whose runSourceFetch hard-fails gets last_error_at
\* and last_error_message set and exactly one FAILED run with errorCount >= 1
\* logged, the error is raised to the caller, last_success_at is unchanged,
\* and the source, due before, is still due and is selected by the next
\* runDueSourceFetches.
C27_HardFailureSelectedAgain ==
    \A x \in sources, input \in DueFeeds, limit \in 1..MaxDueLimit :
        (HardFails(x, input) /\ x \in DueSources(DB, now)) =>
            /\ HardFailureBooked(DB, x, now,
                    runSourceFetch(DB, x.id, "SCHEDULED", input.fetched, input.fail, now))
            /\ SelectedNext(
                    runSourceFetch(DB, x.id, "SCHEDULED", input.fetched, input.fail, now).db,
                    x.id, limit, now)

\* C27 amended: a source whose runSourceFetch hard-fails gets last_error_at
\* and last_error_message set and exactly one FAILED run with errorCount >= 1
\* logged, the error is raised to the caller, last_success_at is unchanged, a
\* source that was due is still due, and the next runDueSourceFetches(limit)
\* selects it when fewer than limit other due sources come no later than it
\* in the order of the query.
C27_HardFailureStillDue ==
    \A x \in sources, input \in DueFeeds, limit \in 1..MaxDueLimit :
        HardFails(x, input) =>
            /\ HardFailureBooked(DB, x, now,
                    runSourceFetch(DB, x.id, "SCHEDULED", input.fetched, input.fail, now))
            /\ ( /\ x \in DueSources(DB, now)
                 /\ Cardinality(NotLater(
                        runSourceFetch(DB, x.id, "SCHEDULED", input.fetched, input.fail, now).db,
                        x.id, now)) < limit ) =>
                   SelectedNext(
                       runSourceFetch(DB, x.id, "SCHEDULED", input.fetched, input.fail, now).db,
                       x.id, limit, now)

\* The API source has failed in a scheduled call at this minute and is still
\* due, while the RSS source has succeeded and is not.
C27_Witness ==
    /\ \E x \in sources :
          /\ x.type = "API" /\ x.last_error_at = Some(now) /\ IsNull(x.last_success_at)
          /\ x \in DueSources(DB, now)
          /\ IngestRun(x.id, "SCHEDULED", "FAILED", 0, 0, 1) \in BagToSet(ingest_runs)
    /\ \E x \in sources : x.type = "RSS" /\ x.enabled /\ x \notin DueSources(DB, now)

\* The source is enabled and due at this minute.
DueNow(sourceId) == \E x \in DueSources(DB, now) : x.id = sourceId

\* runSourceFetch has run for the source at this minute: it stamps
\* last_success_at when it returns and last_error_at when it raises.
FetchedNow(sourceId) ==
    \E x \in sources :
        /\ x.id = sourceId
        /\ x.last_success_at = Some(now) \/ x.last_error_at = Some(now)

EnabledAndDue(x, clock) ==
    /\ x.enabled
    /\ IsNull(x.last_success_at) \/ Val(x.last_success_at) + x.fetch_interval_minutes <= clock

\* runSourceFetch has run for the source at `clock` on `db`.
FetchedAt(db, sourceId, clock) ==
    \/ SourceRow(db, sourceId).last_success_at = Some(clock)
    \/ SourceRow(db, sourceId).last_error_at = Some(clock)

\* What C29 says of a call that selected `rows` and returned `res`.
DueCallContained(db, limit, rows, inputs, clock, res) ==
    /\ ~res.raised
    /\ res.processedSources = Len(rows)
    /\ Len(rows) <= limit
    /\ Len(rows) = Min(limit, Cardinality({ x \in db.sources : EnabledAndDue(x, clock) }))
    /\ Len(res.summaries) = Len(rows)
    /\ \A i \in DOMAIN rows :
          /\ EnabledAndDue(rows[i], clock)
          /\ res.summaries[i].sourceId = rows[i].id
          /\ FetchedAt(res.db, rows[i].id, clock)
          /\ IF HardFails(rows[i], inputs[rows[i].id])
             THEN res.summaries[i].status = "FAILED" /\ res.summaries[i].errorCount >= 1
             ELSE res.summaries[i].status \in {"SUCCESS", "PARTIAL"}

\* C29: runDueSourceFetches never raises because a source run failed: each
\* selected source is attempted in turn whatever the earlier ones did, a
\* failing source is reported FAILED, processedSources is the number of due
\* enabled sources selected (at most limit), and no disabled or not yet due
\* source is selected.
C29_DueCallContained ==
    \A limit \in 1..MaxDueLimit :
        \A rows \in DueSelections(DB, limit, now),
           inputs \in [{ x.id : x \in SeedSources } -> DueFeeds] :
            DueCallContained(DB, limit, rows, inputs, now,
                             runDueSourceFetches(DB, rows, inputs, now))

\* One scheduled call has failed on the API source and parsed the notice of
\* the RSS source in the same minute; the disabled source was not touched.
C29_Witness ==
    /\ IngestRun(2, "SCHEDULED", "FAILED", 0, 0, 1) \in BagToSet(ingest_runs)
    /\ IngestRun(1, "SCHEDULED", "SUCCESS", 1, 1, 0) \in BagToSet(ingest_runs)
    /\ BagCardinality(ingest_runs) = 2
    /\ SourceRow(DB, 1).last_success_at = Some(now)
    /\ SourceRow(DB, 2).last_error_at = Some(now)
    /\ \A x \in sources :
          ~x.enabled => IsNull(x.last_success_at) /\ IsNull(x.last_error_at)

\* The rows that were ERROR in `db` and hold the same content hash in `after`.
ErrorRowsKept(db, after) ==
    { x \in after.raw_notices :
        \E r \in db.raw_notices :
            r.id = x.id /\ r.status = "ERROR" /\ x.content_hash = r.content_hash }

\* C30: a raw notice left ERROR is not retried by the fetches that follow:
\* while its content hash is unchanged, a candidate of runSourceFetch with
\* that hash is reported unchanged, and whatever candidate the loop of
\* runSourceFetch processes, the notice is ERROR afterwards.  (Only a
\* candidate with another hash, or reparseRawNotice, moves it to PARSED.)
C30_ErrorNotRetried ==
    \A source \in sources, candidate \in Candidates, point \in FailPoints :
        /\ ( /\ source.enabled /\ source.type # "API"
             /\ \E r \in raw_notices : r.status = "ERROR" ) =>
              \A x \in ErrorRowsKept(DB,
                       FetchItem([db |-> DB, parsedCount |-> 0, errorCount |-> 0],
                                 source, candidate, point, now).db) :
                  x.status = "ERROR"
        /\ \A r \in RawNoticeOf(DB, source.id, candidate.url) :
              (r.status = "ERROR" /\ r.content_hash = Some(CandidateHash(candidate))) =>
                  ~upsertRawNotice(DB, source.id, candidate, now).changed

\* A fetch failed on a notice at minute 10 and a fetch at minute 11 met the
\* same content again: the one notice there is has the new fetch time and is
\* still ERROR, and the second run counted nothing as parsed or failed.
C30_Witness ==
    /\ now = 11
    /\ IngestRun(1, "MANUAL", "PARTIAL", 1, 0, 1) \in BagToSet(ingest_runs)
    /\ IngestRun(1, "MANUAL", "SUCCESS", 1, 0, 0) \in BagToSet(ingest_runs)
    /\ Cardinality(raw_notices) = 1
    /\ \A r \in raw_notices : r.status = "ERROR" /\ r.fetched_at = 11

\* The event of the row is PUBLIC and did not end more than one day before
\* `clock`, the user has an enabled user_games row for its region, and an
\* enabled rule of the user matches the event and is the rule of the row.
PendingApplies(db, r, clock) ==
    \E e \in db.events :
        /\ e.id = r.event_id
        /\ e.visibility = "PUBLIC"
        /\ IsNull(e.end_at_utc) \/ Val(e.end_at_utc) >= clock - DayMinutes
        /\ \E g \in db.user_games :
              g.user_id = r.user_id /\ g.region_id = e.region_id /\ g.enabled
        /\ \E rule \in db.notification_rules :
              /\ rule.enabled /\ rule.user_id = r.user_id /\ rule.event_type = e.type
              /\ rule.scope = "GLOBAL" \/ rule.region_id = Some(e.region_id)
              /\ rule.channel = r.channel /\ rule.trigger = r.trigger_type
              /\ RuleOffset(rule) = r.trigger_offset_minutes

\* What C31 says of a rebuild for the user that found `before` and left `after`.
RebuildEnds(before, after, userId, clock) ==
    /\ \A r \in after.notification_schedules :
          r.user_id = userId =>
              /\ r.status \notin {"FAILED", "CANCELED"}
              /\ r.status = "PENDING" => PendingApplies(after, r, clock)
    /\ \A r \in before.notification_schedules :
          (r.user_id = userId /\ r.status = "SENT") =>
              \E x \in after.notification_schedules : x.id = r.id /\ x.status = "SENT"
    /\ { r \in after.notification_schedules : r.user_id # userId }
          = { r \in before.notification_schedules : r.user_id # userId }

\* The databases a rebuild of the user may find: the tables as they stand, or
\* with the change the calling handler has just made to the user's games or
\* rules (POST and DELETE /me/games, PATCH and DELETE /me/notification-rules).
RebuildInputs(db, userId) ==
    {db}
    \cup { [db EXCEPT !.user_games = SaveGameRows(@, userId, regionId, enabled)] :
             regionId \in RegionIds, enabled \in BOOLEAN }
    \cup { [db EXCEPT !.user_games =
                { g \in @ : ~(g.user_id = userId /\ g.region_id = regionId) }] :
             regionId \in RegionIds }
    \cup { [db EXCEPT !.notification_rules = PatchRuleRows(@, userId, rule.id, enabled)] :
             rule \in db.notification_rules, enabled \in BOOLEAN }
    \cup { [db EXCEPT !.notification_rules =
                { r \in @ : ~(r.id = rule.id /\ r.user_id = userId) }] :
             rule \in db.notification_rules }

\* C31: after rebuildSchedulesForUser(u) has run alone, user u has no FAILED
\* or CANCELED row, every PENDING row of u belongs to an event that is
\* PUBLIC, did not end more than one day ago, lies in a region u has an
\* enabled subscription to and matches an enabled rule of u; the SENT rows
\* of u are still SENT, and the rows of the other users are as they were.
C31_RebuildLeavesApplicable ==
    \A userId \in UserIds :
        \A db \in RebuildInputs(DB, userId) :
            RebuildEnds(db, rebuildSchedulesForUser(db, userId, now), userId, now)

\* At minute 11 user 2 holds one row, newer than the four rows of the first
\* rebuilds: the PENDING row of the ended event 3 is gone although the event
\* is PUBLIC and rule 4 is enabled, and user 1 still holds the FAILED row
\* and the SENT row of the dispatch.
C31_Witness ==
    /\ now = 11
    /\ \E e \in events : e.id = 3 /\ e.visibility = "PUBLIC"
    /\ \E g \in user_games : g.user_id = 2 /\ g.region_id = 1 /\ g.enabled
    /\ \A r \in notification_schedules :
          r.user_id = 2 => r.event_id = 1 /\ r.status = "PENDING" /\ r.id >= 5
    /\ \E r \in notification_schedules : r.user_id = 2
    /\ \E r \in notification_schedules : r.user_id = 1 /\ r.status = "FAILED"
    /\ \E r \in notification_schedules : r.user_id = 1 /\ r.status = "SENT"

\* The PENDING rows the rule of the user stands behind.
RuleRows(rows, userId, ruleId) ==
    { r \in rows :
        /\ r.user_id = userId /\ r.status = "PENDING"
        /\ \E rule \in notification_rules :
              /\ rule.id = ruleId /\ rule.user_id = userId
              /\ rule.channel = r.channel /\ rule.trigger = r.trigger_type
              /\ RuleOffset(rule) = r.trigger_offset_minutes }

\* The rows are still there and CANCELED after the step.
EndCanceled(rows) ==
    \A r \in rows : \E x \in notification_schedules' : x.id = r.id /\ x.status = "CANCELED"

\* What C32 says of one step of the handlers.
InapplicableCanceled ==
    /\ \A eventId \in RebuildEventIds :
          PatchEvent(eventId, "HIDDEN") =>
              EndCanceled({ r \in notification_schedules :
                              r.event_id = eventId /\ r.status = "PENDING" })
    /\ \A userId \in UserIds :
          /\ DeleteRule(userId, 1) => EndCanceled(RuleRows(notification_schedules, userId, 1))
          /\ PatchRule(userId, 6, FALSE) =>
                EndCanceled(RuleRows(notification_schedules, userId, 6))
    /\ \A r \in notification_schedules :
          r.status = "CANCELED" =>
              \A x \in notification_schedules' : x.id = r.id => x.status = "CANCELED"

\* C32: when a re-plan finds a schedule no longer applicable (its event was
\* hidden, or the rule behind it was deleted or disabled), the row is there
\* afterwards with status CANCELED, and a CANCELED row keeps that status.
C32_InapplicableEndsCanceled == [][InapplicableCanceled]_vars

\* The event that holds the key of the notice's draft in `db` has, after
\* upsertEventFromRaw, its id and the values of the draft (the confidence in
\* the two decimals of its column), and no event was added.
LastWriteWins(db, source, rawNotice, draft, after) ==
    \A e \in db.events :
        e.canonical_event_key = DraftKey(source, draft) =>
            /\ \E x \in after.events :
                  /\ x.id = e.id
                  /\ x.type = draft.type /\ x.title = draft.title
                  /\ x.summary = draft.summary
                  /\ x.start_at_utc = draft.startAtUtc /\ x.end_at_utc = draft.endAtUtc
                  /\ x.source_url = rawNotice.url
                  /\ x.confidence = Numeric(draft.confidence)
                  /\ x.visibility = draft.visibility
            /\ { x.id : x \in after.events } = { x.id : x \in db.events }

\* upsertEventFromRaw on a stored notice.
ParsedWins(db, rawNotice, clock) ==
    LastWriteWins(db, SourceOf(db, rawNotice), rawNotice,
                  RawNoticeDraft(SourceOf(db, rawNotice), rawNotice),
                  upsertEventFromRaw(db, SourceOf(db, rawNotice), rawNotice, "none", clock).db)

\* C33: when upsertEventFromRaw meets an event with the canonicalKey of its
\* draft, the event keeps its id and its type, title, summary, startAtUtc,
\* endAtUtc, sourceUrl, confidence and visibility are those of the draft,
\* also when the draft has a lower confidence or is NEED_REVIEW where the
\* event was PUBLIC: for every notice a fetch stores as changed and every
\* stored notice a reparse reads.
C33_LastWriteWins ==
    /\ \A candidate \in MergeCandidates :
          upsertRawNotice(DB, 1, candidate, now).changed =>
              ParsedWins(upsertRawNotice(DB, 1, candidate, now).db,
                         getRawNotice(upsertRawNotice(DB, 1, candidate, now).db,
                                      upsertRawNotice(DB, 1, candidate, now).rawNoticeId),
                         now)
    /\ \A r \in raw_notices : ParsedWins(DB, r, now)

\* Event 3 was created PUBLIC with confidence 0.70 by the first fetch; the
\* second fetch of the url met its key with a short body: the event has the
\* capital of the new title, confidence 0.60 and visibility NEED_REVIEW, and
\* the schedule planned for it while it was PUBLIC is gone.
C33_Witness ==
    /\ BagCardinality(ingest_runs) = 2
    /\ Cardinality(raw_notices) = 1
    /\ \E e \in events :
          /\ e.id = 3 /\ e.title = <<"Pickup">> /\ e.summary = <<"notice">>
          /\ e.confidence = 60 /\ e.visibility = "NEED_REVIEW"
          /\ e.created_at = Some(10)
    /\ now = 11
    /\ Cardinality(events) = 3
    /\ nextScheduleId = 2 /\ notification_schedules = {}

\* What C34 says of a step of runSourceFetch or reparseRawNotice (each logs
\* one run): an event that is HIDDEN, which only the administrator's PATCH
\* makes it, is HIDDEN afterwards and has no PENDING schedule.
ReviewKept ==
    ingest_runs' # ingest_runs =>
        \A e \in events :
            e.visibility = "HIDDEN" =>
                /\ \A x \in events' : x.id = e.id => x.visibility = "HIDDEN"
                /\ \A r \in notification_schedules' :
                      r.event_id = e.id => r.status # "PENDING"

\* C34: an event the administrator has set to HIDDEN (or NEED_REVIEW) through
\* PATCH /events/:id keeps that visibility and gets no PENDING schedule in any
\* later runSourceFetch or reparseRawNotice that upserts its canonicalKey.
C34_ReviewedVisibilityKept == [][ReviewKept]_vars

\* C35: two notices of one region whose drafts have the same type, start and
\* end and different normalized titles have different canonicalKeys, and are
\* not linked to the same event.
C35_DistinctTitlesDistinctKeys ==
    \A r1, r2 \in raw_notices :
        ( /\ SourceOf(DB, r1).region_id = SourceOf(DB, r2).region_id
          /\ RawNoticeDraft(SourceOf(DB, r1), r1).type = RawNoticeDraft(SourceOf(DB, r2), r2).type
          /\ RawNoticeDraft(SourceOf(DB, r1), r1).startAtUtc
                = RawNoticeDraft(SourceOf(DB, r2), r2).startAtUtc
          /\ RawNoticeDraft(SourceOf(DB, r1), r1).endAtUtc
                = RawNoticeDraft(SourceOf(DB, r2), r2).endAtUtc
          /\ RawNoticeDraft(SourceOf(DB, r1), r1).title
                # RawNoticeDraft(SourceOf(DB, r2), r2).title ) =>
            /\ DraftKey(SourceOf(DB, r1), RawNoticeDraft(SourceOf(DB, r1), r1))
                  # DraftKey(SourceOf(DB, r2), RawNoticeDraft(SourceOf(DB, r2), r2))
            /\ \A l1, l2 \in event_raw_links :
                  (l1.raw_notice_id = r1.id /\ l2.raw_notice_id = r2.id) =>
                      l1.event_id # l2.event_id

\* The events linked to the notice that hold a PENDING schedule.
PendingEventsOf(rawNotice) ==
    { l.event_id : l \in { x \in event_raw_links :
        /\ x.raw_notice_id = rawNotice.id
        /\ \E r \in notification_schedules :
              r.event_id = x.event_id /\ r.status = "PENDING" } }

\* C36: of the events derived from one raw notice (one source and url) at
\* most one holds PENDING schedules, whatever contents were fetched for it.
C36_OneDerivedEventPending ==
    \A r \in raw_notices : Cardinality(PendingEventsOf(r)) <= 1

\* The date a trigger counts from: the start, the end, or the publication
\* (the current time when the event has no created_at).
Basis(trigger, event, clock) ==
    CASE trigger \in {"ON_START", "BEFORE_START"} -> event.start_at_utc
      [] trigger \in {"ON_END", "BEFORE_END"} -> event.end_at_utc
      [] trigger = "ON_PUBLISH" ->
             IF IsNull(event.created_at) THEN Some(clock) ELSE event.created_at

\* The minutes a rule goes back from its basis date.
Back(rule) ==
    IF rule.trigger \in {"BEFORE_START", "BEFORE_END"} /\ ~IsNull(rule.offset_minutes)
    THEN Val(rule.offset_minutes) ELSE 0

ExpectedAt(rule, event, clock) ==
    IF IsNull(Basis(rule.trigger, event, clock)) THEN NULL
    ELSE Some(Val(Basis(rule.trigger, event, clock)) - Back(rule))

\* A re-plan of the event counts the pairs without a basis date as skipped
\* and writes no row for them; every other pair that is not too late gets
\* its row at the expected time.
PlanByTable(before, after, event, clock) ==
    LET pairs == PlanPairs(before, event, 0)
        nobasis == { x \in pairs : IsNull(Basis(x[2].trigger, event, clock)) }
        late == { x \in pairs \ nobasis :
                    Val(ExpectedAt(x[2], event, clock)) < clock - GraceMinutes }
        res == planForEventAndUsersResult(before, event, 0, clock)
    IN /\ res.skipped = Cardinality(nobasis) + Cardinality(late)
       /\ res.planned = Cardinality(pairs) - res.skipped
       /\ \A x \in nobasis :
             \A r \in after.notification_schedules :
                 r.dedupe_key # RuleDedupeKey(x[1], event, x[2])
       /\ \A x \in pairs \ (nobasis \cup late) :
             \E r \in after.notification_schedules :
                 /\ r.dedupe_key = RuleDedupeKey(x[1], event, x[2])
                 /\ r.scheduled_at_utc = Val(ExpectedAt(x[2], event, clock))

\* C37: computeScheduledAt gives ON_START the start, ON_END the end,
\* BEFORE_END the end minus the offset, BEFORE_START the start minus the
\* offset and ON_PUBLISH created_at (the current time when it is missing),
\* a null offset counting as 0; a rule whose basis date is null is counted
\* in skipped and gets no schedule row, and every stored row carries the time
\* of a rule of its user.
C37_ScheduledAtByTrigger ==
    /\ \A e \in events, rule \in notification_rules, created \in {NULL, Some(9)} :
          LET event == [EventRow(e) EXCEPT !.created_at = created]
          IN computeScheduledAt(rule, event, now) = ExpectedAt(rule, event, now)
    /\ \A e \in events :
          PlanByTable(PurgeDB(DB, { r \in notification_schedules : r.event_id = e.id }),
                      planNotificationsForEvent(DB, e.id, now), EventRow(e), now)
    /\ \A r \in notification_schedules :
          \E e \in events, rule \in notification_rules :
              /\ r.event_id = e.id
              /\ r.dedupe_key = RuleDedupeKey(rule.user_id, e, rule)
              /\ Some(r.scheduled_at_utc) = ExpectedAt(rule, EventRow(e), now)

\* The event has an end at minute 16 and no start; the BEFORE_END rule of
\* user 1 with offset 3 holds its row at minute 13, and the BEFORE_START rule
\* of user 2 was skipped.
C37_Witness ==
    /\ \E e \in events : IsNull(e.start_at_utc) /\ e.end_at_utc = Some(16)
    /\ \E rule \in notification_rules : rule.user_id = 2 /\ rule.trigger = "BEFORE_START"
    /\ Cardinality(notification_schedules) = 1
    /\ \E r \in notification_schedules :
          /\ r.user_id = 1
          /\ r.trigger_type = "BEFORE_END"
          /\ r.trigger_offset_minutes = 3
          /\ r.scheduled_at_utc = 13

\* Both calls have returned.
FetchesDone == \A f \in Fetchers : fetch[f].pc = "done"

\* The rows of the candidate's url, and the events of its draft's key.
CandidateNotices(candidate) == RawNoticeOf(DB, FetchSourceId, candidate.url)
CandidateEvents(candidate) ==
    { e \in events :
        \E r \in CandidateNotices(candidate) :
            e.canonical_event_key =
                DraftKey(SourceOf(DB, r), RawNoticeDraft(SourceOf(DB, r), r)) }

\* C38: at every point of two interleaved runSourceFetch calls on one source
\* with the same candidates no two raw notices share (source_id, url), no two
\* events share a canonical_event_key and no two schedules share a
\* dedupe_key; when both calls have returned, each logged SUCCESS with no
\* error, and every candidate has one PARSED raw notice, one event and the
\* link between the two.
C38_ConcurrentFetchesSafe ==
    /\ \A r1, r2 \in raw_notices :
          (r1.source_id = r2.source_id /\ r1.url = r2.url) => r1 = r2
    /\ \A e1, e2 \in events : e1.canonical_event_key = e2.canonical_event_key => e1 = e2
    /\ \A s1, s2 \in notification_schedules : s1.dedupe_key = s2.dedupe_key => s1 = s2
    /\ \A f \in Fetchers : fetch[f].errorCount = 0
    /\ FetchesDone =>
          /\ BagCardinality(ingest_runs) = Cardinality(Fetchers)
          /\ \A run \in BagToSet(ingest_runs) :
                /\ run.status = "SUCCESS"
                /\ run.error_count = 0
                /\ run.fetched_count = Len(FetchFeed)
          /\ \A i \in 1..Len(FetchFeed) :
                /\ Cardinality(CandidateNotices(FetchFeed[i])) = 1
                /\ Cardinality(CandidateEvents(FetchFeed[i])) = 1
                /\ \A r \in CandidateNotices(FetchFeed[i]) :
                      /\ r.status = "PARSED"
                      /\ \A e \in CandidateEvents(FetchFeed[i]) :
                            { l \in event_raw_links : l.raw_notice_id = r.id }
                               = { [event_id |-> e.id, raw_notice_id |-> r.id] }
          /\ \A e \in events : e.visibility = "PUBLIC" =>
                \A userId \in getTargetUsersForRegion(DB, e.region_id, 0) :
                    \A rule \in getEligibleRulesForEvent(DB, EventRow(e), userId) :
                        ~RuleSkipped(rule, EventRow(e), now, now) =>
                            Cardinality({ x \in notification_schedules :
                                x.dedupe_key = RuleDedupeKey(userId, e, rule) }) = 1

\* Both calls have returned after each parsed both notices: the second
\* call's INSERT met the first call's row, and its upsertSchedule met the
\* first call's schedule or re-created it.
C38_Witness ==
    /\ FetchesDone
    /\ \A f \in Fetchers : fetch[f].parsedCount = Len(FetchFeed)
    /\ Cardinality(notification_schedules) = 1

\* The calls of every tick are in order: the dispatch-due call is sent only
\* when the run-due call of the tick has returned, and a tick ends without
\* an error of its own.
TicksInOrder ==
    \A t \in WorkerTicks :
        /\ worker[t].dispatch # "none" => worker[t].ingest = "ok"
        /\ ~(worker[t].ingest = "sent" /\ worker[t].dispatch = "sent")
        /\ worker[t].ingest = "failed" => worker[t].dispatch = "none" /\ worker[t].pc = "done"
        /\ worker[t].pc \in {"idle", "ingest", "dispatch", "done"}

\* C39: in every tick of the worker the dispatch-due call is invoked only
\* after the run-due call of the same tick returned successfully, the two
\* calls of a tick are never both in flight, a failed run-due call means no
\* dispatch-due call in that tick, and whatever the calls do every later
\* tick begins.
C39_IngestThenDispatch ==
    /\ []TicksInOrder
    /\ \A t \in WorkerTicks : <>(worker[t].pc # "idle")

\* The run-due call of the first tick failed and the tick ended without a
\* dispatch-due call; the second tick made both calls.
C39_Witness ==
    /\ worker[1].pc = "done" /\ worker[1].ingest = "failed" /\ worker[1].dispatch = "none"
    /\ worker[2].pc = "done" /\ worker[2].ingest = "ok" /\ worker[2].dispatch = "ok"

====
